---- MODULE Spec2Model ----
(***************************************************************************)
(* The backtesting engine of FinanceToolkit (src/backtesting/engine.py):   *)
(* the ledger (Order, Trade, Position, Portfolio) and the day-by-day       *)
(* driver BacktestEngine.run, driven by an arbitrary strategy callable     *)
(* (specification Spec) or by the built-in strategies of                   *)
(* src/backtesting/strategies.py (specification StrategySpec).             *)
(*                                                                         *)
(* Python floats are modelled as exact rationals <<n, d>> in lowest terms  *)
(* (d > 0), with NaN as <<0, 0>>: arithmetic propagates NaN and every      *)
(* comparison with NaN is false, as in IEEE 754.  Rounding error of the    *)
(* binary representation is not modelled.                                  *)
(***************************************************************************)
EXTENDS Integers, Sequences, FiniteSets, TLC

VARIABLES
    panel,            \* BacktestEngine.prices: date index -> (ticker -> price)
    initial_cash,     \* BacktestEngine.initial_cash / Portfolio.initial_cash
    commission_rate,  \* BacktestEngine.commission / Portfolio.commission_rate
    cash,             \* Portfolio.cash
    positions,        \* Portfolio.positions: ticker -> Position
    trades,           \* Portfolio.trades, the trade log
    daily_values,     \* the snapshots recorded by run()
    i,                \* index of the current date in run()'s loop (1-based)
    k,                \* orders of today's list already iterated
    order,            \* the loop variable `order` of run() (<<>> before the first)
    trade,            \* the last return value of execute_order (<<>> is None)
    pc,               \* position in run()
    raw_data,         \* BacktestEngine.raw_data: the rows given to __init__
    start_date,       \* the start_date argument of __init__ (<<>> is None)
    end_date,         \* the end_date argument of __init__ (<<>> is None)
    dates,            \* BacktestEngine.dates: the date of each row of panel
    strategy,         \* the strategy object passed to run(), with its fields
    orders,           \* the list the strategy returned today, as returned
    day_start,        \* history: the ledger as today's strategy call left it
    previous,         \* what the earlier runs on this engine returned
    set_order,        \* the order in which this process iterates a set of tickers
    lookback_call,    \* the last call of get_lookback and what it returned
    statistics        \* the statistics read from the results, once read

\* the engine's construction, the strategy object and the earlier runs
setup == <<raw_data, start_date, end_date, dates, strategy, orders, day_start,
           previous, set_order,
           lookback_call, statistics>>

vars == <<panel, initial_cash, commission_rate, cash, positions, trades,
          daily_values, i, k, order, trade, pc, setup>>

(***************************************************************************)
(* Bounds of the model.                                                    *)
(***************************************************************************)
MaxDays == 2
MaxOrders == 2
StrategyDays == 4
MaxPeriods == 2
MaxSeries == 3

(***************************************************************************)
(* Floats.                                                                 *)
(***************************************************************************)
RECURSIVE GCD(_, _)
GCD(a, b) == IF b = 0 THEN a ELSE GCD(b, a % b)

Abs(x) == IF x < 0 THEN -x ELSE x

NaN == <<0, 0>>

IsNaN(x) == x[2] = 0

Norm(n, d) ==
    IF d = 0 THEN NaN
    ELSE LET s == IF d < 0 THEN -1 ELSE 1
             g == GCD(Abs(n), Abs(d))
         IN  <<(s * n) \div g, (s * d) \div g>>

F(n) == <<n, 1>>

Frac(n, d) == Norm(n, d)

FAdd(x, y) ==
    IF IsNaN(x) \/ IsNaN(y) THEN NaN
    ELSE LET g == GCD(x[2], y[2])
         IN  Norm(x[1] * (y[2] \div g) + y[1] * (x[2] \div g),
                  (x[2] \div g) * y[2])

FNeg(x) == <<-x[1], x[2]>>

FSub(x, y) == FAdd(x, FNeg(y))

FMul(x, y) ==
    IF IsNaN(x) \/ IsNaN(y) THEN NaN
    ELSE LET g1 == GCD(Abs(x[1]), y[2])
             g2 == GCD(Abs(y[1]), x[2])
         IN  Norm((x[1] \div g1) * (y[1] \div g2),
                  (x[2] \div g2) * (y[2] \div g1))

\* x / y for y # 0 (a float division by zero raises in Python; no divisor
\* of the model is zero: prices are positive or NaN, quantities positive).
FDiv(x, y) ==
    IF IsNaN(x) \/ IsNaN(y) \/ y[1] = 0 THEN NaN
    ELSE FMul(x, IF y[1] < 0 THEN <<-y[2], -y[1]>> ELSE <<y[2], y[1]>>)

FGt(x, y) == ~IsNaN(x) /\ ~IsNaN(y) /\ x[1] * y[2] > y[1] * x[2]

FLt(x, y) == FGt(y, x)

FGe(x, y) == ~IsNaN(x) /\ ~IsNaN(y) /\ x[1] * y[2] >= y[1] * x[2]

FLe(x, y) == FGe(y, x)

\* int(x) of a finite float: truncation toward zero.
IntTrunc(x) == IF x[1] >= 0 THEN x[1] \div x[2] ELSE -((-x[1]) \div x[2])

(***************************************************************************)
(* Inputs: the panel's columns and prices, the engine's configuration and  *)
(* the orders a strategy may return.                                       *)
(***************************************************************************)
Tickers == {"A", "B"}

Dates == 1..MaxDays

\* the prices a column may hold on a date: column B may lack a price (NaN)
ColumnPrices(ticker) ==
    IF ticker = "A" THEN {F(10), F(11)} ELSE {F(10), NaN}

Panels ==
    {p \in [Dates -> [Tickers -> {F(10), F(11), NaN}]] :
        \A d \in Dates : \A ticker \in Tickers :
            p[d][ticker] \in ColumnPrices(ticker)}

InitialCashValues == {F(0), F(50)}

CommissionRates == {F(0), Frac(1, 1000)}

Quantities == {3, 2000, 6000}

LimitQuantities == {3}

LimitPrices == {F(10), F(11)}

BUY == "buy"

SELL == "sell"

MARKET == "market"

LIMIT == "limit"

None == <<>>

\* a ticker that is no column of the panel
UnknownTicker == "Z"

\* start_date / end_date left at their default None (`if start_date:`)
NoDate == 0

\* Order(ticker, side, quantity, order_type, limit_price): market orders,
\* limit orders, and market orders for a ticker the panel does not hold
Orders ==
    [ticker : Tickers, side : {BUY, SELL}, quantity : Quantities,
     order_type : {MARKET}, limit_price : {None}]
    \cup
    [ticker : Tickers, side : {BUY, SELL}, quantity : LimitQuantities,
     order_type : {LIMIT}, limit_price : LimitPrices]
    \cup
    [ticker : {UnknownTicker}, side : {BUY, SELL}, quantity : LimitQuantities,
     order_type : {MARKET}, limit_price : {None}]

(***************************************************************************)
(* Trade and Position.                                                     *)
(***************************************************************************)
\* Trade.value with the commission added on a sell as on a buy
TradeValueCommissionAdded(t) ==
    FAdd(FMul(F(t.quantity), t.price), t.commission)

\* Trade.value
TradeValue(t) ==
    LET base_value == FMul(F(t.quantity), t.price)
    IN  IF t.side = BUY THEN FAdd(base_value, t.commission)
        ELSE FSub(base_value, t.commission)

\* a new Position with an average cost before any buy
NewPositionAtUnitCost(ticker) ==
    [ticker |-> ticker, quantity |-> 0, avg_cost |-> F(1)]

\* Position(ticker=ticker): quantity and avg_cost at their defaults
NewPosition(ticker) == [ticker |-> ticker, quantity |-> 0, avg_cost |-> F(0)]

\* Position.update with the buy branch subtracting the traded quantity
PositionUpdateBuySubtracts(p, t) ==
    LET quantity == p.quantity - t.quantity
    IN  IF t.side = BUY
        THEN [p EXCEPT !.quantity = quantity]
        ELSE IF quantity <= 0
             THEN [p EXCEPT !.quantity = 0, !.avg_cost = F(0)]
             ELSE [p EXCEPT !.quantity = quantity]

\* Position.update with the average cost kept when a sell empties the position
PositionUpdateKeepsAvgCost(p, t) ==
    IF t.side = BUY
    THEN LET total_cost == FAdd(FMul(F(p.quantity), p.avg_cost),
                                FMul(F(t.quantity), t.price))
             quantity == p.quantity + t.quantity
         IN  [p EXCEPT !.quantity = quantity,
                       !.avg_cost = IF quantity > 0
                                    THEN FDiv(total_cost, F(quantity))
                                    ELSE p.avg_cost]
    ELSE LET quantity == p.quantity - t.quantity
         IN  [p EXCEPT !.quantity = IF quantity <= 0 THEN 0 ELSE quantity]

\* Position.update
PositionUpdate(p, t) ==
    IF t.side = BUY
    THEN LET total_cost == FAdd(FMul(F(p.quantity), p.avg_cost),
                                FMul(F(t.quantity), t.price))
             quantity == p.quantity + t.quantity
         IN  [p EXCEPT !.quantity = quantity,
                       !.avg_cost = IF quantity > 0
                                    THEN FDiv(total_cost, F(quantity))
                                    ELSE p.avg_cost]
    ELSE LET quantity == p.quantity - t.quantity
         IN  IF quantity <= 0
             THEN [p EXCEPT !.quantity = 0, !.avg_cost = F(0)]
             ELSE [p EXCEPT !.quantity = quantity]

(***************************************************************************)
(* Portfolio.                                                              *)
(***************************************************************************)
\* Portfolio.get_position: the positions map after the call
GetPositionCreatesHolding(pos, ticker) ==
    IF ticker \in DOMAIN pos THEN pos
    ELSE [t \in DOMAIN pos \cup {ticker} |->
            IF t = ticker
            THEN [ticker |-> ticker, quantity |-> 1, avg_cost |-> F(0)]
            ELSE pos[t]]

GetPosition(pos, ticker) ==
    IF ticker \in DOMAIN pos THEN pos ELSE pos @@ (ticker :> NewPosition(ticker))

\* the limit condition with >= and <= in place of > and <
LimitNotMetAtEqual(o, current_price) ==
    /\ o.order_type = LIMIT
    /\ \/ o.side = BUY /\ FGe(current_price, o.limit_price)
       \/ o.side = SELL /\ FLe(current_price, o.limit_price)

\* the limit condition of execute_order
LimitNotMet(o, current_price) ==
    /\ o.order_type = LIMIT
    /\ \/ o.side = BUY /\ FGt(current_price, o.limit_price)
       \/ o.side = SELL /\ FLt(current_price, o.limit_price)

OrderValue(quantity, current_price) == FMul(F(quantity), current_price)

Commission(trade_value, rate) == FMul(trade_value, rate)

\* max_quantity with the commission left out
MaxQuantityIgnoresCommission(c, commission, current_price) ==
    IntTrunc(FDiv(c, current_price))

\* max_quantity of the cash check
MaxQuantity(c, commission, current_price) ==
    IntTrunc(FDiv(FSub(c, commission), current_price))

\* the position check without the clamp
SellQuantityUnclamped(quantity, held) == quantity

\* the quantity of a sell after the position check
SellQuantity(quantity, held) == IF quantity > held THEN held ELSE quantity

\* the abort test with < in place of <=
InfeasibleStrict(quantity) == quantity < 0

\* the abort test of the cash check and of the position check
Infeasible(quantity) == quantity <= 0

\* Portfolio.execute_order(o, current_price) on the ledger (c, pos, log):
\* the ledger after the call, the order as the call leaves it, and the
\* return value
ExecuteOrder(o, current_price, c, pos, log, rate) ==
    LET unchanged == [cash |-> c, positions |-> pos, trades |-> log,
                      order |-> o, trade |-> None]
        trade_value == OrderValue(o.quantity, current_price)
        commission == Commission(trade_value, rate)
        reduce == o.side = BUY /\ FGt(FAdd(trade_value, commission), c)
        max_quantity == MaxQuantity(c, commission, current_price)
        pos1 == IF o.side = SELL THEN GetPosition(pos, o.ticker) ELSE pos
        quantity == IF o.side = SELL
                    THEN SellQuantity(o.quantity, pos1[o.ticker].quantity)
                    ELSE IF reduce THEN max_quantity ELSE o.quantity
        commission2 == IF reduce
                       THEN Commission(OrderValue(quantity, current_price), rate)
                       ELSE commission
        o2 == [o EXCEPT !.quantity = quantity]
        t == [ticker |-> o.ticker, side |-> o.side, quantity |-> quantity,
              price |-> current_price, commission |-> commission2]
        pos2 == GetPosition(pos1, o.ticker)
    IN  IF LimitNotMet(o, current_price) THEN unchanged
        ELSE IF reduce /\ Infeasible(max_quantity) THEN unchanged
        ELSE IF o.side = SELL /\ Infeasible(quantity)
             THEN [unchanged EXCEPT !.positions = pos1, !.order = o2]
        ELSE [cash |-> IF o.side = BUY THEN FSub(c, TradeValue(t))
                       ELSE FAdd(c, TradeValue(t)),
              positions |-> [pos2 EXCEPT
                                ![o.ticker] = PositionUpdate(pos2[o.ticker], t)],
              trades |-> Append(log, t),
              order |-> o2,
              trade |-> t]

RECURSIVE SumValue(_, _, _)
SumValue(S, pos, prices) ==
    IF S = {} THEN F(0)
    ELSE LET ticker == CHOOSE x \in S : TRUE
         IN  FAdd(FMul(F(pos[ticker].quantity), prices[ticker]),
                  SumValue(S \ {ticker}, pos, prices))

\* the positions the valuation loops count
Valued(pos, prices) ==
    {ticker \in DOMAIN pos : ticker \in DOMAIN prices /\ pos[ticker].quantity > 0}

\* Portfolio.get_positions_value
GetPositionsValue(pos, prices) == SumValue(Valued(pos, prices), pos, prices)

\* Portfolio.get_total_value
GetTotalValue(c, pos, prices) == FAdd(c, GetPositionsValue(pos, prices))

(***************************************************************************)
(* BacktestEngine.run                                                      *)
(***************************************************************************)
\* self.prices.loc[date].to_dict()
current_prices == panel[i]

\* a strategy that is some callable: run() sees the orders it returns only
Callable == [type |-> "callable"]

Init ==
    /\ panel \in Panels
    /\ raw_data = panel
    /\ start_date = NoDate
    /\ end_date = NoDate
    /\ dates = [d \in Dates |-> d]
    /\ strategy = Callable
    /\ orders = <<>>
    /\ day_start = None
    /\ previous = <<>>
    /\ set_order = <<"A", "B">>
    /\ lookback_call = None
    /\ statistics = None
    /\ initial_cash \in InitialCashValues
    /\ commission_rate \in CommissionRates
    /\ cash = initial_cash
    /\ positions = <<>>
    /\ trades = <<>>
    /\ daily_values = <<>>
    /\ i = 1
    /\ k = 0
    /\ order = None
    /\ trade = None
    /\ pc = "loop"

\* for order in orders: the strategy's list holds a further order
NextOrder ==
    /\ pc = "loop"
    /\ k < MaxOrders
    /\ \E o \in Orders : order' = o
    /\ k' = k + 1
    /\ pc' = "exec"
    /\ UNCHANGED <<panel, initial_cash, commission_rate, cash, positions,
                   trades, daily_values, i, trade, setup>>

\* the body of the loop over the orders
ExecuteStep ==
    /\ pc = "exec"
    /\ IF order.ticker \in DOMAIN current_prices
       THEN LET r == ExecuteOrder(order, current_prices[order.ticker], cash,
                                  positions, trades, commission_rate)
            IN  /\ cash' = r.cash
                /\ positions' = r.positions
                /\ trades' = r.trades
                /\ order' = r.order
                /\ trade' = r.trade
       ELSE UNCHANGED <<cash, positions, trades, order, trade>>
    /\ pc' = "loop"
    /\ UNCHANGED <<panel, initial_cash, commission_rate, daily_values, i, k,
                   setup>>

\* the end of the day's orders: record the daily values, go to the next date
RecordDay ==
    /\ pc = "loop"
    /\ daily_values' = Append(daily_values,
           [date |-> i,
            total_value |-> GetTotalValue(cash, positions, current_prices),
            cash |-> cash,
            positions_value |-> GetPositionsValue(positions, current_prices)])
    /\ k' = 0
    /\ IF i < MaxDays
       THEN i' = i + 1 /\ pc' = "loop"
       ELSE i' = i /\ pc' = "done"
    /\ UNCHANGED <<panel, initial_cash, commission_rate, cash, positions,
                   trades, order, trade, setup>>

Next == NextOrder \/ ExecuteStep \/ RecordDay

Spec == Init /\ [][Next]_vars

(***************************************************************************)
(* BacktestEngine.__init__ and get_lookback.                               *)
(***************************************************************************)
\* the elements of a list
Range(s) == {s[n] : n \in DOMAIN s}

Max(a, b) == IF a >= b THEN a ELSE b

Min(a, b) == IF a <= b THEN a ELSE b

\* the index labels of the rows _process_data keeps: row n of the raw data
\* carries date n, and a bound that is not given filters nothing
KeptDates(raw, start, end) ==
    LET lo == IF start = NoDate THEN 1 ELSE Max(1, start)
        hi == IF end = NoDate THEN Len(raw) ELSE Min(Len(raw), end)
    IN  IF lo > hi THEN <<>> ELSE [n \in 1..(hi - lo + 1) |-> lo + n - 1]

\* _process_data on simple columns: self.prices
ProcessData(raw, start, end) ==
    LET kept == KeptDates(raw, start, end)
    IN  [n \in DOMAIN kept |-> raw[kept[n]]]

\* self.tickers = list(self.prices.columns)
Columns(prices) == IF prices = <<>> THEN {} ELSE DOMAIN prices[1]

\* self.dates.index(date) if date in self.dates else 0
DateIndex(index, date) ==
    IF date \in Range(index)
    THEN (CHOOSE n \in DOMAIN index :
              index[n] = date /\ \A m \in 1..(n - 1) : index[m] # date) - 1
    ELSE 0

\* the slice without the row of the date itself
GetLookbackExclusive(prices, index, date, periods) ==
    LET idx == DateIndex(index, date)
        start_idx == Max(0, idx - periods)
    IN  SubSeq(prices, start_idx + 1, Min(idx, Len(prices)))

\* BacktestEngine.get_lookback: self.prices.iloc[start_idx:idx + 1]
GetLookback(prices, index, date, periods) ==
    LET idx == DateIndex(index, date)
        start_idx == Max(0, idx - periods)
    IN  SubSeq(prices, start_idx + 1, Min(idx + 1, Len(prices)))

(***************************************************************************)
(* The built-in strategies (src/backtesting/strategies.py).  A call of     *)
(* generate_signals is the record of what it returns and what it leaves    *)
(* behind: the list of orders, the strategy object, the portfolio's        *)
(* positions map (get_position adds to it), and the exception it raised.   *)
(***************************************************************************)
\* no exception: the call returned
Returned == ""

\* Order(ticker, side, quantity): a market order
MarketOrder(ticker, side, quantity) ==
    [ticker |-> ticker, side |-> side, quantity |-> quantity,
     order_type |-> MARKET, limit_price |-> None]

\* a call that returned list and changed nothing but the strategy object
Signals(list, s, pos) ==
    [orders |-> list, strategy |-> s, positions |-> pos, raised |-> Returned]

\* a call that raised exception
Raised(exception, s, pos) ==
    [orders |-> <<>>, strategy |-> s, positions |-> pos, raised |-> exception]

\* int(amount / price): the quantity, or the exception that the division
\* raises on a zero price or int() on NaN
Sized(amount, price) ==
    LET ratio == FDiv(amount, price)
    IN  IF ~IsNaN(price) /\ price[1] = 0
        THEN [raised |-> "ZeroDivisionError", quantity |-> 0]
        ELSE IF IsNaN(ratio) THEN [raised |-> "ValueError", quantity |-> 0]
        ELSE [raised |-> Returned, quantity |-> IntTrunc(ratio)]

\* BuyAndHold.__init__
NewBuyAndHold(tickers, weights) ==
    [type |-> "BuyAndHold", tickers |-> tickers,
     weights |-> IF weights = <<>>
                 THEN [t \in Range(tickers) |-> Frac(1, Len(tickers))]
                 ELSE weights,
     bought |-> FALSE]

\* the loop of BuyAndHold.generate_signals over self.tickers[n..]
RECURSIVE BuyAndHoldOrders(_, _, _, _)
BuyAndHoldOrders(s, n, prices, total_cash) ==
    IF n > Len(s.tickers) THEN [orders |-> <<>>, raised |-> Returned]
    ELSE LET ticker == s.tickers[n]
             weight == IF ticker \in DOMAIN s.weights THEN s.weights[ticker]
                       ELSE Frac(1, Len(s.tickers))
             sized == Sized(FMul(total_cash, weight), prices[ticker])
             rest == BuyAndHoldOrders(s, n + 1, prices, total_cash)
         IN  IF ticker \notin DOMAIN prices THEN rest
             ELSE IF sized.raised # Returned
                  THEN [orders |-> <<>>, raised |-> sized.raised]
             ELSE IF sized.quantity > 0
                  THEN [rest EXCEPT !.orders =
                            <<MarketOrder(ticker, BUY, sized.quantity)>> \o @]
             ELSE rest

\* BuyAndHold.generate_signals
BuyAndHoldSignals(s, prices, c, pos) ==
    IF s.bought THEN Signals(<<>>, s, pos)
    ELSE LET loop == BuyAndHoldOrders(s, 1, prices, c)
         IN  IF loop.raised # Returned THEN Raised(loop.raised, s, pos)
             ELSE Signals(loop.orders, [s EXCEPT !.bought = TRUE], pos)

\* frame[ticker]: the column of a frame as a series
Column(frame, ticker) == [n \in DOMAIN frame |-> frame[n][ticker]]

\* frame.columns
FrameColumns(frame) == IF frame = <<>> THEN Columns(panel) ELSE DOMAIN frame[1]

RECURSIVE SeriesSum(_, _, _)
\* series[from] + ... + series[to]
SeriesSum(series, from, to) ==
    IF from > to THEN F(0)
    ELSE FAdd(series[to], SeriesSum(series, from, to - 1))

\* series.rolling(window).mean().iloc[n - 1]: NaN until window values are
\* there and when one of them is NaN
RollingMean(series, window, n) ==
    IF n < window \/ window < 1 THEN NaN
    ELSE FDiv(SeriesSum(series, n - window + 1, n), F(window))

\* position.quantity == 0 with a held position taken for a flat one
IsFlatOrHeld(quantity) == quantity >= 0

\* if position.quantity == 0: the condition of a threshold strategy's buy
IsFlat(quantity) == quantity = 0

\* MovingAverageCrossover.__init__
NewMovingAverageCrossover(tickers, short_window, long_window, position_size) ==
    [type |-> "MovingAverageCrossover", tickers |-> tickers,
     short_window |-> short_window, long_window |-> long_window,
     position_size |-> position_size]

\* the loop of MovingAverageCrossover.generate_signals over self.tickers[n..]
\* on the positions map pos
RECURSIVE MovingAverageOrders(_, _, _, _, _, _)
MovingAverageOrders(s, n, lookback, prices, c, pos) ==
    IF n > Len(s.tickers) THEN Signals(<<>>, s, pos)
    ELSE
    LET ticker == s.tickers[n]
        ticker_data == Column(lookback, ticker)
        last == Len(ticker_data)
        short_ma == RollingMean(ticker_data, s.short_window, last)
        long_ma == RollingMean(ticker_data, s.long_window, last)
        prev_short_ma == RollingMean(ticker_data, s.short_window, last - 1)
        prev_long_ma == RollingMean(ticker_data, s.long_window, last - 1)
        current_signal == FGt(short_ma, long_ma)
        prev_signal == FGt(prev_short_ma, prev_long_ma)
        pos1 == GetPosition(pos, ticker)
        quantity == pos1[ticker].quantity
        current_price == IF ticker \in DOMAIN prices THEN prices[ticker] ELSE F(0)
        sized == Sized(FMul(c, s.position_size), current_price)
    IN  IF ticker \notin FrameColumns(lookback)
        THEN MovingAverageOrders(s, n + 1, lookback, prices, c, pos)
        ELSE IF last < 2 THEN Raised("IndexError", s, pos)
        ELSE IF IsNaN(short_ma) \/ IsNaN(long_ma)
        THEN MovingAverageOrders(s, n + 1, lookback, prices, c, pos)
        ELSE
        LET rest == MovingAverageOrders(s, n + 1, lookback, prices, c, pos1)
        IN  IF current_signal /\ ~prev_signal
            THEN IF ~IsFlat(quantity) THEN rest
                 ELSE IF sized.raised # Returned THEN Raised(sized.raised, s, pos1)
                 ELSE IF sized.quantity > 0
                 THEN [rest EXCEPT !.orders =
                          <<MarketOrder(ticker, BUY, sized.quantity)>> \o @]
                 ELSE rest
            ELSE IF ~current_signal /\ prev_signal
            THEN IF quantity > 0
                 THEN [rest EXCEPT !.orders =
                          <<MarketOrder(ticker, SELL, quantity)>> \o @]
                 ELSE rest
            ELSE rest

\* MovingAverageCrossover.generate_signals
MovingAverageSignals(s, date, prices, c, pos) ==
    LET lookback == GetLookback(panel, dates, date, s.long_window + 1)
    IN  IF Len(lookback) < s.long_window THEN Signals(<<>>, s, pos)
        ELSE MovingAverageOrders(s, 1, lookback, prices, c, pos)

\* the values of a series that are numbers (pandas skips NaN in mean, std)
Valid(series) == SelectSeq(series, LAMBDA x : ~IsNaN(x))

\* series.mean()
Mean(series) ==
    LET valid == Valid(series)
    IN  IF valid = <<>> THEN NaN
        ELSE FDiv(SeriesSum(valid, 1, Len(valid)), F(Len(valid)))

RECURSIVE SquaredDeviations(_, _, _)
SquaredDeviations(valid, mean, n) ==
    IF n = 0 THEN F(0)
    ELSE LET d == FSub(valid[n], mean)
         IN  FAdd(FMul(d, d), SquaredDeviations(valid, mean, n - 1))

\* series.std() squared: the sample variance (ddof = 1), NaN below two values
Variance(series) ==
    LET valid == Valid(series)
    IN  IF Len(valid) < 2 THEN NaN
        ELSE FDiv(SquaredDeviations(valid, Mean(series), Len(valid)),
                  F(Len(valid) - 1))

\* d / sqrt(variance) <= threshold, for variance > 0: both sides are compared
\* by sign and by square
ZScoreLe(d, variance, threshold) ==
    LET d2 == FMul(d, d)
        t2v == FMul(FMul(threshold, threshold), variance)
    IN  /\ ~IsNaN(d) /\ ~IsNaN(variance) /\ ~IsNaN(threshold)
        /\ IF FLe(d, F(0))
           THEN FGe(threshold, F(0)) \/ FGe(d2, t2v)
           ELSE FGe(threshold, F(0)) /\ FLe(d2, t2v)

\* d / sqrt(variance) >= threshold
ZScoreGe(d, variance, threshold) ==
    ZScoreLe(FNeg(d), variance, FNeg(threshold))

\* MeanReversion.__init__
NewMeanReversion(tickers, lookback, entry_zscore, exit_zscore, position_size) ==
    [type |-> "MeanReversion", tickers |-> tickers, lookback |-> lookback,
     entry_zscore |-> entry_zscore, exit_zscore |-> exit_zscore,
     position_size |-> position_size]

\* the loop of MeanReversion.generate_signals over self.tickers[n..]
RECURSIVE MeanReversionOrders(_, _, _, _, _, _)
MeanReversionOrders(s, n, lookback_data, prices, c, pos) ==
    IF n > Len(s.tickers) THEN Signals(<<>>, s, pos)
    ELSE
    LET ticker == s.tickers[n]
        ticker_data == Column(lookback_data, ticker)
        current_price == IF ticker \in DOMAIN prices THEN prices[ticker] ELSE F(0)
        mean == Mean(ticker_data)
        variance == Variance(ticker_data)
        d == FSub(current_price, mean)
        pos1 == GetPosition(pos, ticker)
        quantity == pos1[ticker].quantity
        sized == Sized(FMul(c, s.position_size), current_price)
    IN  IF ticker \notin FrameColumns(lookback_data)
        THEN MeanReversionOrders(s, n + 1, lookback_data, prices, c, pos)
        ELSE IF ~IsNaN(variance) /\ variance[1] = 0
        THEN MeanReversionOrders(s, n + 1, lookback_data, prices, c, pos)
        ELSE
        LET rest == MeanReversionOrders(s, n + 1, lookback_data, prices, c, pos1)
        IN  IF ZScoreLe(d, variance, s.entry_zscore) /\ IsFlat(quantity)
            THEN IF sized.raised # Returned THEN Raised(sized.raised, s, pos1)
                 ELSE IF sized.quantity > 0
                 THEN [rest EXCEPT !.orders =
                          <<MarketOrder(ticker, BUY, sized.quantity)>> \o @]
                 ELSE rest
            ELSE IF ZScoreGe(d, variance, s.exit_zscore) /\ quantity > 0
            THEN [rest EXCEPT !.orders =
                     <<MarketOrder(ticker, SELL, quantity)>> \o @]
            ELSE rest

\* MeanReversion.generate_signals
MeanReversionSignals(s, date, prices, c, pos) ==
    LET lookback_data == GetLookback(panel, dates, date, s.lookback + 1)
    IN  IF Len(lookback_data) < s.lookback THEN Signals(<<>>, s, pos)
        ELSE MeanReversionOrders(s, 1, lookback_data, prices, c, pos)

\* MomentumStrategy.__init__
NewMomentumStrategy(tickers, lookback, top_n, rebalance_days) ==
    [type |-> "MomentumStrategy", tickers |-> tickers, lookback |-> lookback,
     top_n |-> top_n, rebalance_days |-> rebalance_days,
     days_since_rebalance |-> 0, current_holdings |-> {}]

\* the momentum dict as the list of its items: the tickers of
\* self.tickers[1..n] with a start price > 0, each once, with their return
RECURSIVE MomentumItems(_, _, _)
MomentumItems(s, n, lookback_data) ==
    IF n = 0 THEN <<>>
    ELSE
    LET ticker == s.tickers[n]
        before == MomentumItems(s, n - 1, lookback_data)
        start_price == lookback_data[1][ticker]
        end_price == lookback_data[Len(lookback_data)][ticker]
        value == FDiv(FSub(end_price, start_price), start_price)
        at == {m \in DOMAIN before : before[m][1] = ticker}
    IN  IF ticker \notin FrameColumns(lookback_data) THEN before
        ELSE IF ~FGt(start_price, F(0)) THEN before
        ELSE IF at = {} THEN Append(before, <<ticker, value>>)
        ELSE [before EXCEPT ![CHOOSE m \in at : TRUE] = <<ticker, value>>]

\* item put into a list sorted by descending value, behind the items that
\* are not smaller (a comparison with NaN is false)
InsertDescending(sorted, item) ==
    LET behind == {m \in 0..Len(sorted) :
                      \A j \in (m + 1)..Len(sorted) :
                          FLt(sorted[j][2], item[2])}
        m == CHOOSE x \in behind : \A y \in behind : x <= y
    IN  SubSeq(sorted, 1, m) \o <<item>> \o SubSeq(sorted, m + 1, Len(sorted))

\* sorted(items, key=lambda x: x[1], reverse=True): a stable sort
RECURSIVE SortedDescending(_, _)
SortedDescending(items, n) ==
    IF n = 0 THEN <<>>
    ELSE InsertDescending(SortedDescending(items, n - 1), items[n])

\* the elements of set S in the order a loop over the set visits them
Iterate(S) == SelectSeq(set_order, LAMBDA t : t \in S)

\* the first loop of a rebalance: sells of the holdings list[n..]
RECURSIVE MomentumSells(_, _, _)
MomentumSells(list, n, pos) ==
    IF n > Len(list) THEN [orders |-> <<>>, positions |-> pos]
    ELSE LET ticker == list[n]
             pos1 == GetPosition(pos, ticker)
             rest == MomentumSells(list, n + 1, pos1)
         IN  IF pos1[ticker].quantity > 0
             THEN [rest EXCEPT !.orders =
                      <<MarketOrder(ticker, SELL, pos1[ticker].quantity)>> \o @]
             ELSE rest

\* the second loop of a rebalance: buys of the new top tickers list[n..]
RECURSIVE MomentumBuys(_, _, _, _, _)
MomentumBuys(s, list, n, prices, c) ==
    IF n > Len(list) THEN [orders |-> <<>>, raised |-> Returned]
    ELSE LET ticker == list[n]
             sized == Sized(FDiv(c, F(s.top_n)), prices[ticker])
             rest == MomentumBuys(s, list, n + 1, prices, c)
         IN  IF ticker \notin DOMAIN prices THEN rest
             ELSE IF sized.raised # Returned
                  THEN [orders |-> <<>>, raised |-> sized.raised]
             ELSE IF sized.quantity > 0
                  THEN [rest EXCEPT !.orders =
                           <<MarketOrder(ticker, BUY, sized.quantity)>> \o @]
             ELSE rest

\* top_tickers: the first top_n tickers of the ranking
TopTickers(s, lookback_data) ==
    LET items == MomentumItems(s, Len(s.tickers), lookback_data)
        sorted_momentum == SortedDescending(items, Len(items))
    IN  {sorted_momentum[m][1] : m \in 1..Min(s.top_n, Len(sorted_momentum))}

\* orders: the first loop appends the sells, the second one the buys
RebalanceOrders(sells, buys) == sells \o buys

\* the schedule with a rebalance one call late
NotDueInclusive(days, s) == days <= s.rebalance_days

\* if self.days_since_rebalance < self.rebalance_days
NotDue(days, s) == days < s.rebalance_days

\* MomentumStrategy.generate_signals
MomentumSignals(s, date, prices, c, pos) ==
    LET days == s.days_since_rebalance + 1
        due == [s EXCEPT !.days_since_rebalance = 0]
        lookback_data == GetLookback(panel, dates, date, s.lookback + 1)
        top_tickers == TopTickers(s, lookback_data)
        sells == MomentumSells(Iterate(s.current_holdings \ top_tickers), 1, pos)
        buys == MomentumBuys(s, Iterate(top_tickers \ s.current_holdings), 1,
                             prices, c)
    IN  IF NotDue(days, s)
        THEN Signals(<<>>, [s EXCEPT !.days_since_rebalance = days], pos)
        ELSE IF Len(lookback_data) < s.lookback THEN Signals(<<>>, due, pos)
        ELSE IF buys.raised # Returned
             THEN Raised(buys.raised, due, sells.positions)
        ELSE Signals(RebalanceOrders(sells.orders, buys.orders),
                     [due EXCEPT !.current_holdings = top_tickers],
                     sells.positions)

\* ValueStrategy.__init__: fundamental_data as the list of its items
\* <<ticker, pe_ratio, piotroski_f_score>>
NewValueStrategy(fundamental_data, max_pe, min_piotroski, position_size) ==
    [type |-> "ValueStrategy", fundamental_data |-> fundamental_data,
     max_pe |-> max_pe, min_piotroski |-> min_piotroski,
     position_size |-> position_size, bought |-> FALSE]

\* buy_candidates: the tickers that pass the two criteria, in dict order
BuyCandidates(s) ==
    LET passing == SelectSeq(s.fundamental_data,
                       LAMBDA item : /\ FLe(item[2], s.max_pe)
                                     /\ item[3] >= s.min_piotroski)
    IN  [n \in DOMAIN passing |-> passing[n][1]]

\* the loop of ValueStrategy.generate_signals over buy_candidates[n..]
RECURSIVE ValueOrders(_, _, _, _, _, _)
ValueOrders(s, candidates, n, prices, c, pos) ==
    IF n > Len(candidates) THEN Signals(<<>>, [s EXCEPT !.bought = TRUE], pos)
    ELSE
    LET ticker == candidates[n]
        sized == Sized(FMul(c, s.position_size), prices[ticker])
        rest == ValueOrders(s, candidates, n + 1, prices, c, pos)
    IN  IF ticker \notin DOMAIN prices THEN rest
        ELSE IF sized.raised # Returned THEN Raised(sized.raised, s, pos)
        ELSE IF sized.quantity > 0
             THEN [rest EXCEPT !.orders =
                      <<MarketOrder(ticker, BUY, sized.quantity)>> \o @]
        ELSE rest

\* ValueStrategy.generate_signals
ValueSignals(s, prices, c, pos) ==
    IF s.bought THEN Signals(<<>>, s, pos)
    ELSE ValueOrders(s, BuyCandidates(s), 1, prices, c, pos)

\* RSIStrategy.__init__
NewRSIStrategy(tickers, period, oversold, overbought, position_size) ==
    [type |-> "RSIStrategy", tickers |-> tickers, period |-> period,
     oversold |-> oversold, overbought |-> overbought,
     position_size |-> position_size]

\* prices.diff(): NaN at the first place and next to a NaN
Diff(series) ==
    [n \in DOMAIN series |->
        IF n = 1 THEN NaN ELSE FSub(series[n], series[n - 1])]

\* delta.where(delta > 0, 0)
Gains(delta) ==
    [n \in DOMAIN delta |-> IF FGt(delta[n], F(0)) THEN delta[n] ELSE F(0)]

\* -delta.where(delta < 0, 0)
Losses(delta) ==
    [n \in DOMAIN delta |->
        IF FLt(delta[n], F(0)) THEN FNeg(delta[n]) ELSE F(0)]

\* RSIStrategy._calculate_rsi: 100 - 100 / (1 + gain / loss) at the last
\* place; gain / 0 is inf for gain > 0 (RSI 100) and NaN for gain = 0
CalculateRSI(s, series) ==
    LET delta == Diff(series)
        gain == RollingMean(Gains(delta), s.period, Len(series))
        loss == RollingMean(Losses(delta), s.period, Len(series))
    IN  IF IsNaN(gain) \/ IsNaN(loss) THEN NaN
        ELSE IF loss[1] = 0
             THEN IF gain[1] = 0 THEN NaN ELSE F(100)
        ELSE FSub(F(100), FDiv(F(100), FAdd(F(1), FDiv(gain, loss))))

\* the loop of RSIStrategy.generate_signals over self.tickers[n..]
RECURSIVE RSIOrders(_, _, _, _, _, _)
RSIOrders(s, n, lookback_data, prices, c, pos) ==
    IF n > Len(s.tickers) THEN Signals(<<>>, s, pos)
    ELSE
    LET ticker == s.tickers[n]
        rsi == CalculateRSI(s, Column(lookback_data, ticker))
        pos1 == GetPosition(pos, ticker)
        quantity == pos1[ticker].quantity
        current_price == IF ticker \in DOMAIN prices THEN prices[ticker] ELSE F(0)
        sized == Sized(FMul(c, s.position_size), current_price)
    IN  IF ticker \notin FrameColumns(lookback_data)
        THEN RSIOrders(s, n + 1, lookback_data, prices, c, pos)
        ELSE IF IsNaN(rsi)
        THEN RSIOrders(s, n + 1, lookback_data, prices, c, pos)
        ELSE
        LET rest == RSIOrders(s, n + 1, lookback_data, prices, c, pos1)
        IN  IF FLe(rsi, s.oversold) /\ IsFlat(quantity)
            THEN IF sized.raised # Returned THEN Raised(sized.raised, s, pos1)
                 ELSE IF sized.quantity > 0
                 THEN [rest EXCEPT !.orders =
                          <<MarketOrder(ticker, BUY, sized.quantity)>> \o @]
                 ELSE rest
            ELSE IF FGe(rsi, s.overbought) /\ quantity > 0
            THEN [rest EXCEPT !.orders =
                     <<MarketOrder(ticker, SELL, quantity)>> \o @]
            ELSE rest

\* RSIStrategy.generate_signals
RSISignals(s, date, prices, c, pos) ==
    LET lookback_data == GetLookback(panel, dates, date, s.period + 5)
    IN  IF Len(lookback_data) < s.period + 1 THEN Signals(<<>>, s, pos)
        ELSE RSIOrders(s, 1, lookback_data, prices, c, pos)

\* generate_signals of a strategy that is not a combination, on a portfolio
\* with cash c and positions pos
MemberSignals(s, date, prices, c, pos) ==
    CASE s.type = "BuyAndHold" -> BuyAndHoldSignals(s, prices, c, pos)
      [] s.type = "MovingAverageCrossover" ->
             MovingAverageSignals(s, date, prices, c, pos)
      [] s.type = "MeanReversion" -> MeanReversionSignals(s, date, prices, c, pos)
      [] s.type = "MomentumStrategy" -> MomentumSignals(s, date, prices, c, pos)
      [] s.type = "ValueStrategy" -> ValueSignals(s, prices, c, pos)
      [] s.type = "RSIStrategy" -> RSISignals(s, date, prices, c, pos)

\* CombinedStrategy.__init__
NewCombinedStrategy(strategies, require_all, min_agree) ==
    [type |-> "CombinedStrategy", strategies |-> strategies,
     require_all |-> require_all, min_agree |-> min_agree]

\* one poll of the strategies[n..]: their orders in one list, the strategies
\* and the positions map as the calls leave them (r is the one call of
\* strategies[n])
RECURSIVE Poll(_, _, _, _, _, _)
Poll(strategies, n, date, prices, c, pos) ==
    IF n > Len(strategies)
    THEN [orders |-> <<>>, strategies |-> strategies, positions |-> pos,
          raised |-> Returned]
    ELSE CHOOSE result \in
             {LET called == [strategies EXCEPT ![n] = r.strategy]
              IN  IF r.raised # Returned
                  THEN [orders |-> <<>>, strategies |-> called,
                        positions |-> r.positions, raised |-> r.raised]
                  ELSE [Poll(called, n + 1, date, prices, c, r.positions)
                           EXCEPT !.orders = r.orders \o @] :
              r \in {MemberSignals(strategies[n], date, prices, c, pos)}} :
             TRUE

\* the keys of all_orders: the tickers of list[1..n] in the order of their
\* first order
RECURSIVE Keys(_, _)
Keys(list, n) ==
    IF n = 0 THEN <<>>
    ELSE LET before == Keys(list, n - 1)
         IN  IF list[n].ticker \in Range(before) THEN before
             ELSE Append(before, list[n].ticker)

\* all_orders[ticker][side]
Count(list, ticker, side) ==
    Len(SelectSeq(list, LAMBDA o : o.ticker = ticker /\ o.side = side))

\* the threshold without require_all
ThresholdMinAgree(s) == s.min_agree

\* threshold
Threshold(s) == IF s.require_all THEN Len(s.strategies) ELSE s.min_agree

\* the body of the loop of CombinedStrategy.generate_signals for one key of
\* all_orders: the order it appends, if any; a ticker with enough buys polls
\* every strategy again for the largest quantity
CombinedStep(s, ticker, all_orders, date, prices, c, pos) ==
    IF Count(all_orders, ticker, BUY) >= Threshold(s)
    THEN CHOOSE result \in
             {LET polled == [s EXCEPT !.strategies = again.strategies]
                  quantities ==
                      {again.orders[m].quantity : m \in
                          {j \in DOMAIN again.orders :
                              /\ again.orders[j].ticker = ticker
                              /\ again.orders[j].side = BUY}}
                  quantity == CHOOSE q \in quantities :
                                  \A x \in quantities : x <= q
              IN  IF again.raised # Returned
                  THEN Raised(again.raised, polled, again.positions)
                  ELSE IF quantities = {}
                  THEN Raised("ValueError", polled, again.positions)
                  ELSE Signals(<<MarketOrder(ticker, BUY, quantity)>>, polled,
                               again.positions) :
              again \in {Poll(s.strategies, 1, date, prices, c, pos)}} : TRUE
    ELSE IF Count(all_orders, ticker, SELL) >= Threshold(s)
    THEN CHOOSE result \in
             {IF pos1[ticker].quantity > 0
              THEN Signals(<<MarketOrder(ticker, SELL, pos1[ticker].quantity)>>,
                           s, pos1)
              ELSE Signals(<<>>, s, pos1) :
              pos1 \in {GetPosition(pos, ticker)}} : TRUE
    ELSE Signals(<<>>, s, pos)

\* the loop of CombinedStrategy.generate_signals over the keys[n..] of
\* all_orders
RECURSIVE CombinedOrders(_, _, _, _, _, _, _, _)
CombinedOrders(s, keys, n, all_orders, date, prices, c, pos) ==
    IF n > Len(keys) THEN Signals(<<>>, s, pos)
    ELSE CHOOSE result \in
             {IF step.raised # Returned THEN step
              ELSE [CombinedOrders(step.strategy, keys, n + 1, all_orders,
                                   date, prices, c, step.positions)
                       EXCEPT !.orders = step.orders \o @] :
              step \in {CombinedStep(s, keys[n], all_orders, date, prices, c,
                                     pos)}} : TRUE

\* CombinedStrategy.generate_signals (of strategies that are not
\* combinations themselves)
CombinedSignals(s, date, prices, c, pos) ==
    CHOOSE result \in
        {    LET polled == [s EXCEPT !.strategies = first.strategies]
             IN  IF first.raised # Returned
                 THEN Raised(first.raised, polled, first.positions)
                 ELSE CombinedOrders(polled,
                                     Keys(first.orders, Len(first.orders)), 1,
                                     first.orders, date, prices, c,
                                     first.positions) :
         first \in {Poll(s.strategies, 1, date, prices, c, pos)}} : TRUE

\* strategy.generate_signals(date, prices, portfolio, engine) on a portfolio
\* with cash c and positions pos
GenerateSignals(s, date, prices, c, pos) ==
    IF s.type = "CombinedStrategy"
    THEN CombinedSignals(s, date, prices, c, pos)
    ELSE MemberSignals(s, date, prices, c, pos)

(***************************************************************************)
(* A backtest with a built-in strategy: BacktestEngine(data, initial_cash, *)
(* commission, start_date, end_date) and then run(strategy).               *)
(***************************************************************************)
\* the rows of the raw data: the universe A, B, or no column at all
RawRows(d) ==
    {r \in [Tickers -> {F(10), F(11), F(12), NaN}] :
        /\ r["A"] \in {F(10), F(11)}
        /\ r["B"] \in CASE d = 1 -> {F(10), NaN}
                       [] d = 2 -> {F(10), F(12)}
                       [] OTHER -> {F(10)}}

RawPanels ==
    {p \in [1..StrategyDays -> [Tickers -> {F(10), F(11), F(12), NaN}]] :
        \A d \in 1..StrategyDays : p[d] \in RawRows(d)}
    \cup {[d \in 1..StrategyDays |-> <<>>]}

\* the orders in which a process may iterate a set of tickers (the order
\* follows the strings' hashes, which differ from process to process)
SetOrders == {<<"A", "B">>, <<"B", "A">>}

\* (start_date, end_date): the whole data, its tail, or no date at all
DateBounds == {<<NoDate, NoDate>>, <<2, NoDate>>, <<2, 1>>}

StrategyCashValues == {F(20), F(50)}

Strategies ==
    {NewBuyAndHold(<<"A", "B">>, <<>>),
     NewBuyAndHold(<<"B", "A">>, [t \in Tickers |-> F(1)]),
     NewMovingAverageCrossover(<<"A", "B">>, 1, 2, Frac(1, 2)),
     NewMeanReversion(<<"A", "B">>, 2, Frac(-1, 2), F(0), Frac(1, 2)),
     NewMomentumStrategy(<<"A", "B">>, 2, 1, 2),
     NewMomentumStrategy(<<"A", "B">>, 1, 2, 1),
     NewMomentumStrategy(<<"A", "B">>, 3, 1, 2),
     NewValueStrategy(<<<<"A", F(12), 8>>, <<"B", F(20), 9>>>>, F(15), 7,
                      Frac(1, 2)),
     NewRSIStrategy(<<"A", "B">>, 2, F(30), F(70), Frac(1, 2)),
     NewCombinedStrategy(
         <<NewMovingAverageCrossover(<<"A", "B">>, 1, 2, Frac(1, 2)),
           NewMovingAverageCrossover(<<"A", "B">>, 1, 2, Frac(1, 4))>>,
         TRUE, 2),
     NewCombinedStrategy(
         <<NewMovingAverageCrossover(<<"A", "B">>, 1, 2, Frac(1, 2)),
           NewMeanReversion(<<"A", "B">>, 2, Frac(-1, 2), F(0), Frac(1, 2))>>,
         FALSE, 1),
     NewCombinedStrategy(
         <<NewBuyAndHold(<<"A", "B">>, <<>>),
           NewBuyAndHold(<<"B", "A">>, <<>>)>>,
         FALSE, 2),
     NewCombinedStrategy(
         <<NewMovingAverageCrossover(<<"A", "B">>, 1, 2, Frac(1, 2)),
           NewMeanReversion(<<"A", "B">>, 2, Frac(-1, 2), F(0), Frac(1, 2))>>,
         TRUE, 1)}

StrategyInit ==
    /\ raw_data \in RawPanels
    /\ \E b \in DateBounds : start_date = b[1] /\ end_date = b[2]
    /\ initial_cash \in StrategyCashValues
    /\ commission_rate \in CommissionRates
    /\ strategy \in Strategies
    /\ panel = <<>>
    /\ dates = <<>>
    /\ cash = initial_cash
    /\ positions = <<>>
    /\ trades = <<>>
    /\ daily_values = <<>>
    /\ i = 1
    /\ k = 0
    /\ order = None
    /\ trade = None
    /\ orders = <<>>
    /\ day_start = None
    /\ previous = <<>>
    /\ set_order \in IF strategy.type = "MomentumStrategy"
                     THEN SetOrders ELSE {<<"A", "B">>}
    /\ lookback_call = None
    /\ statistics = None
    /\ pc = "new"

\* BacktestEngine.__init__: it checks nothing and raises nothing
Construct ==
    /\ pc = "new"
    /\ panel' = ProcessData(raw_data, start_date, end_date)
    /\ dates' = KeptDates(raw_data, start_date, end_date)
    /\ pc' = "ready"
    /\ UNCHANGED <<initial_cash, commission_rate, cash, positions, trades,
                   daily_values, i, k, order, trade, raw_data, start_date,
                   end_date, strategy, orders, day_start, previous,
                   set_order, lookback_call, statistics>>

BeginRunKeepsPortfolio ==
    /\ pc = "ready"
    /\ daily_values' = <<>>
    /\ i' = 1
    /\ k' = 0
    /\ pc' = IF dates = <<>> THEN "results" ELSE "day"
    /\ UNCHANGED <<panel, initial_cash, commission_rate, cash, positions,
                   trades, order, trade, setup>>

\* run(): a new Portfolio and empty daily values, then the loop over the dates
BeginRun ==
    /\ pc = "ready"
    /\ cash' = initial_cash
    /\ positions' = <<>>
    /\ trades' = <<>>
    /\ daily_values' = <<>>
    /\ i' = 1
    /\ k' = 0
    /\ pc' = IF dates = <<>> THEN "results" ELSE "day"
    /\ UNCHANGED <<panel, initial_cash, commission_rate, order, trade, setup>>

\* the strategy call with the orders of the day before kept in front of the
\* new ones
CallStrategyKeepsOrders ==
    /\ pc = "day"
    /\ \E r \in {GenerateSignals(strategy, dates[i], current_prices, cash,
                                 positions)} :
           /\ strategy' = r.strategy
           /\ positions' = r.positions
           /\ orders' = IF r.raised = Returned THEN orders \o r.orders ELSE <<>>
           /\ day_start' = [cash |-> cash, positions |-> r.positions,
                            trades |-> trades]
           /\ pc' = IF r.raised = Returned THEN "loop" ELSE "raised"
    /\ UNCHANGED <<panel, initial_cash, commission_rate, cash, trades,
                   daily_values, i, k, order, trade, raw_data, start_date,
                   end_date, dates, previous, set_order,
           lookback_call, statistics>>

\* orders = strategy(date, prices, portfolio, engine)
CallStrategy ==
    /\ pc = "day"
    /\ \E r \in {GenerateSignals(strategy, dates[i], current_prices, cash,
                                 positions)} :
           /\ strategy' = r.strategy
           /\ positions' = r.positions
           /\ orders' = IF r.raised = Returned THEN r.orders ELSE <<>>
           /\ day_start' = [cash |-> cash, positions |-> r.positions,
                            trades |-> trades]
           /\ pc' = IF r.raised = Returned THEN "loop" ELSE "raised"
    /\ UNCHANGED <<panel, initial_cash, commission_rate, cash, trades,
                   daily_values, i, k, order, trade, raw_data, start_date,
                   end_date, dates, previous, set_order,
           lookback_call, statistics>>

\* the element of list that the loop `for order in orders` takes after n
NextInListLastFirst(list, n) == list[Len(list) - n]

NextInList(list, n) == list[n + 1]

\* for order in orders: the next order of the list
TakeOrder ==
    /\ pc = "loop"
    /\ k < Len(orders)
    /\ order' = NextInList(orders, k)
    /\ k' = k + 1
    /\ pc' = "exec"
    /\ UNCHANGED <<panel, initial_cash, commission_rate, cash, positions,
                   trades, daily_values, i, trade, setup>>

EndDaySkipsIdleDays ==
    /\ pc = "loop"
    /\ k = Len(orders)
    /\ daily_values' =
           IF orders = <<>> THEN daily_values
           ELSE Append(daily_values,
                    [date |-> dates[i],
                     total_value |->
                         GetTotalValue(cash, positions, current_prices),
                     cash |-> cash,
                     positions_value |->
                         GetPositionsValue(positions, current_prices)])
    /\ k' = 0
    /\ IF i < Len(dates)
       THEN i' = i + 1 /\ pc' = "day"
       ELSE i' = i /\ pc' = "results"
    /\ UNCHANGED <<panel, initial_cash, commission_rate, cash, positions,
                   trades, order, trade, setup>>

\* the list is exhausted: record the daily values, go to the next date
EndDay ==
    /\ pc = "loop"
    /\ k = Len(orders)
    /\ daily_values' = Append(daily_values,
           [date |-> dates[i],
            total_value |-> GetTotalValue(cash, positions, current_prices),
            cash |-> cash,
            positions_value |-> GetPositionsValue(positions, current_prices)])
    /\ k' = 0
    /\ IF i < Len(dates)
       THEN i' = i + 1 /\ pc' = "day"
       ELSE i' = i /\ pc' = "results"
    /\ UNCHANGED <<panel, initial_cash, commission_rate, cash, positions,
                   trades, order, trade, setup>>

\* BacktestResults(..., pd.DataFrame(daily_values).set_index('date'), ...):
\* a frame built from an empty list has no column 'date' (KeyError)
MakeResults ==
    /\ pc = "results"
    /\ pc' = IF daily_values = <<>> THEN "raised" ELSE "done"
    /\ UNCHANGED <<panel, initial_cash, commission_rate, cash, positions,
                   trades, daily_values, i, k, order, trade, setup>>

StrategyNext ==
    \/ Construct
    \/ BeginRun
    \/ CallStrategy
    \/ TakeOrder
    \/ ExecuteStep
    \/ EndDay
    \/ MakeResults

StrategySpec == StrategyInit /\ [][StrategyNext]_vars

(***************************************************************************)
(* A second run on the same engine, with a new strategy object of the same *)
(* type and parameters.                                                    *)
(***************************************************************************)
\* s as its constructor leaves it, for a strategy that is not a combination
FreshMember(s) ==
    CASE s.type \in {"BuyAndHold", "ValueStrategy"} -> [s EXCEPT !.bought = FALSE]
      [] s.type = "MomentumStrategy" ->
             [s EXCEPT !.days_since_rebalance = 0, !.current_holdings = {}]
      [] OTHER -> s

\* a newly constructed strategy of the type and parameters of s
Fresh(s) ==
    IF s.type = "CombinedStrategy"
    THEN [s EXCEPT !.strategies = [n \in DOMAIN @ |-> FreshMember(@[n])]]
    ELSE FreshMember(s)

\* the first run has returned its results: they are kept, and run() is
\* called again with a new strategy
RunAgain ==
    /\ pc = "done"
    /\ previous = <<>>
    /\ previous' = <<[daily_values |-> daily_values, trades |-> trades]>>
    /\ strategy' = Fresh(strategy)
    /\ pc' = "ready"
    /\ UNCHANGED <<panel, initial_cash, commission_rate, cash, positions,
                   trades, daily_values, i, k, order, trade, raw_data,
                   start_date, end_date, dates, orders, day_start, set_order,
                   lookback_call, statistics>>

RerunNext == StrategyNext \/ RunAgain

RerunSpec == StrategyInit /\ [][RerunNext]_vars

(***************************************************************************)
(* Calls of get_lookback on a constructed engine, for dates of the raw     *)
(* data (the index may hold only some of them) and dates beyond them.      *)
(***************************************************************************)
LookbackDates == 0..(StrategyDays + 1)

\* engine.get_lookback(date, periods)
CallGetLookback ==
    /\ pc = "ready"
    /\ \E date \in LookbackDates, periods \in 0..MaxPeriods :
           lookback_call' = [date |-> date, periods |-> periods,
                        rows |-> GetLookback(panel, dates, date, periods)]
    /\ UNCHANGED <<panel, initial_cash, commission_rate, cash, positions,
                   trades, daily_values, i, k, order, trade, pc, raw_data,
                   start_date, end_date, dates, strategy, orders, day_start,
                   previous, set_order, statistics>>

\* the engines are those of StrategySpec; the strategy plays no part
LookbackInit == StrategyInit /\ strategy.type = "RSIStrategy"

LookbackNext == Construct \/ CallGetLookback

LookbackSpec == LookbackInit /\ [][LookbackNext]_vars

(***************************************************************************)
(* A backtest of a combination whose sub-strategies keep state between     *)
(* their calls (BuyAndHold, Momentum, Value), next to one that keeps none. *)
(***************************************************************************)
Combinations ==
    {NewCombinedStrategy(
         <<NewMovingAverageCrossover(<<"A", "B">>, 1, 2, Frac(1, 2)),
           NewMomentumStrategy(<<"A", "B">>, 1, 1, 2)>>,
         FALSE, 1),
     NewCombinedStrategy(
         <<NewBuyAndHold(<<"A", "B">>, <<>>),
           NewMomentumStrategy(<<"A", "B">>, 1, 2, 2)>>,
         FALSE, 1),
     NewCombinedStrategy(
         <<NewBuyAndHold(<<"A", "B">>, <<>>),
           NewValueStrategy(<<<<"A", F(12), 8>>, <<"B", F(20), 9>>>>, F(15), 7,
                            Frac(1, 2))>>,
         FALSE, 2),
     NewCombinedStrategy(
         <<NewMovingAverageCrossover(<<"A", "B">>, 1, 2, Frac(1, 2)),
           NewMovingAverageCrossover(<<"A", "B">>, 1, 2, Frac(1, 4))>>,
         TRUE, 2)}

CombinationInit ==
    /\ raw_data \in RawPanels
    /\ start_date = NoDate
    /\ end_date = NoDate
    /\ initial_cash \in StrategyCashValues
    /\ commission_rate \in CommissionRates
    /\ strategy \in Combinations
    /\ panel = <<>>
    /\ dates = <<>>
    /\ cash = initial_cash
    /\ positions = <<>>
    /\ trades = <<>>
    /\ daily_values = <<>>
    /\ i = 1
    /\ k = 0
    /\ order = None
    /\ trade = None
    /\ orders = <<>>
    /\ day_start = None
    /\ previous = <<>>
    /\ set_order \in SetOrders
    /\ lookback_call = None
    /\ statistics = None
    /\ pc = "new"

CombinationSpec == CombinationInit /\ [][StrategyNext]_vars

(***************************************************************************)
(* A second run with the strategy object of the first, after the reset of  *)
(* compare_strategies (src/backtesting/examples.py): each of the three     *)
(* fields is assigned if the object has it.                                *)
(***************************************************************************)
\* hasattr(s, name)
HasAttr(s, name) == name \in DOMAIN s

\* the reset with current_holdings left as it is
ResetKeepsHoldings(s) ==
    LET s1 == IF HasAttr(s, "bought") THEN [s EXCEPT !.bought = FALSE] ELSE s
    IN  IF HasAttr(s1, "days_since_rebalance")
        THEN [s1 EXCEPT !.days_since_rebalance = 0]
        ELSE s1

\* "Need to reset strategy state": the three assignments of compare_strategies
Reset(s) ==
    LET s1 == IF HasAttr(s, "bought") THEN [s EXCEPT !.bought = FALSE] ELSE s
        s2 == IF HasAttr(s1, "current_holdings")
              THEN [s1 EXCEPT !.current_holdings = {}]
              ELSE s1
    IN  IF HasAttr(s2, "days_since_rebalance")
        THEN [s2 EXCEPT !.days_since_rebalance = 0]
        ELSE s2

\* the first run has returned its results: they are kept, the strategy
\* object is reset and run() is called with it again
RunReset ==
    /\ pc = "done"
    /\ previous = <<>>
    /\ previous' = <<[daily_values |-> daily_values, trades |-> trades]>>
    /\ strategy' = Reset(strategy)
    /\ pc' = "ready"
    /\ UNCHANGED <<panel, initial_cash, commission_rate, cash, positions,
                   trades, daily_values, i, k, order, trade, raw_data,
                   start_date, end_date, dates, orders, day_start, set_order,
                   lookback_call, statistics>>

\* the strategies of StrategySpec and the combinations of CombinationSpec
ResetInit == StrategyInit \/ CombinationInit

ResetNext == StrategyNext \/ RunReset

ResetSpec == ResetInit /\ [][ResetNext]_vars

(***************************************************************************)
(* A backtest of the momentum strategy on a universe of four instruments   *)
(* at two price levels, over two dates: the first rebalance ranks equal    *)
(* returns, the second one ranks the returns of the first day.             *)
(***************************************************************************)
SelectionTickers == {"A", "B", "C", "D"}

\* the rows of the data: D has no price on the first date in some of them;
\* the second row's returns are among +10%, +5%, -2% and +8%
SelectionRows(d) ==
    IF d = 1
    THEN {r \in [SelectionTickers -> {F(30), F(10), NaN}] :
             /\ r["A"] = F(30) /\ r["B"] = F(30) /\ r["C"] = F(10)
             /\ r["D"] \in {F(10), NaN}}
    ELSE {r \in [SelectionTickers ->
                    {F(33), Frac(63, 2), Frac(49, 5), Frac(54, 5), F(11)}] :
             /\ r["A"] \in {F(33), Frac(63, 2)}
             /\ r["B"] \in {Frac(63, 2), F(33)}
             /\ r["C"] = Frac(49, 5)
             /\ r["D"] \in {Frac(54, 5), F(11)}}

SelectionPanels ==
    {<<r1, r2>> : r1 \in SelectionRows(1), r2 \in SelectionRows(2)}

\* the data in which B has no price on the second date
MissingEndPanels ==
    {<<r1, [r2 EXCEPT !["B"] = NaN]>> :
        r1 \in {r \in SelectionRows(1) : r["D"] = F(10)},
        r2 \in {r \in SelectionRows(2) : r["A"] = F(33) /\ r["D"] = F(11)}}

\* the universe in some orders of the ticker list
TickerLists ==
    {<<"A", "B", "C", "D">>, <<"D", "C", "B", "A">>, <<"B", "D", "A", "C">>}

\* the orders in which a process may iterate a set of these tickers
SelectionSetOrders == {<<"A", "B", "C", "D">>, <<"D", "B", "C", "A">>}

\* two instruments of the universe in both orders
PairLists == {<<"A", "B">>, <<"B", "A">>}

\* MomentumStrategy(tickers, lookback=1, top_n, rebalance_days=1)
SelectionStrategies ==
    {NewMomentumStrategy(tickers, 1, top_n, 1) :
        tickers \in TickerLists, top_n \in {1, 2}}

\* ... and MomentumStrategy(tickers, lookback=1, top_n=2, rebalance_days=2)
PairStrategies ==
    {NewMomentumStrategy(tickers, 1, 1, 1) : tickers \in PairLists}
        \cup {NewMomentumStrategy(tickers, 1, 2, 2) : tickers \in PairLists}

\* the data and the strategy of a backtest: a missing price on the second
\* date comes with a list of two tickers
SelectionInputs ==
    (SelectionPanels \X (SelectionStrategies \cup PairStrategies))
        \cup (MissingEndPanels \X PairStrategies)

SelectionInit ==
    /\ \E input \in SelectionInputs :
           raw_data = input[1] /\ strategy = input[2]
    /\ start_date = NoDate
    /\ end_date = NoDate
    /\ initial_cash = F(100)
    /\ commission_rate = F(0)
    /\ panel = <<>>
    /\ dates = <<>>
    /\ cash = initial_cash
    /\ positions = <<>>
    /\ trades = <<>>
    /\ daily_values = <<>>
    /\ i = 1
    /\ k = 0
    /\ order = None
    /\ trade = None
    /\ orders = <<>>
    /\ day_start = None
    /\ previous = <<>>
    /\ set_order \in SelectionSetOrders
    /\ lookback_call = None
    /\ statistics = None
    /\ pc = "new"

SelectionSpec == SelectionInit /\ [][StrategyNext]_vars

(***************************************************************************)
(* BacktestResults: the statistics of the daily values.                    *)
(***************************************************************************)
\* self.daily_values['total_value']
TotalValues(frame) == [n \in DOMAIN frame |-> frame[n].total_value]

\* values.expanding(min_periods=1).max() at place n: the largest of the
\* numbers among values[1..n], NaN while there is none
RECURSIVE ExpandingMax(_, _)
ExpandingMax(values, n) ==
    IF n = 0 THEN NaN
    ELSE CHOOSE result \in
             {IF IsNaN(values[n]) THEN before
              ELSE IF IsNaN(before) THEN values[n]
              ELSE IF FGt(values[n], before) THEN values[n] ELSE before :
              before \in {ExpandingMax(values, n - 1)}} : TRUE

\* the float -inf, which a negative number divided by zero gives in a series
NegInf == <<-1, 0>>

\* drawdown = (values - peak) / peak at place n: 0 / 0 is NaN
Drawdown(values, n) ==
    CHOOSE result \in
        {IF IsNaN(values[n]) \/ IsNaN(peak) THEN NaN
         ELSE IF peak[1] # 0 THEN FDiv(FSub(values[n], peak), peak)
         ELSE IF values[n][1] = 0 THEN NaN ELSE NegInf :
         peak \in {ExpandingMax(values, n)}} : TRUE

\* BacktestResults.max_drawdown: drawdown.min(), which skips NaN and is NaN
\* when nothing is left
MaxDrawdown(values) ==
    LET drawdown == [n \in DOMAIN values |-> Drawdown(values, n)]
        numbers == {n \in DOMAIN values : ~IsNaN(drawdown[n])}
    IN  IF \E n \in DOMAIN values : drawdown[n] = NegInf THEN NegInf
        ELSE IF numbers = {} THEN NaN
        ELSE drawdown[CHOOSE n \in numbers :
                         \A m \in numbers : FLe(drawdown[n], drawdown[m])]

(***************************************************************************)
(* The statistics of the results of a run, over the series of daily total  *)
(* values a run can end with: positive values, the value 0 of a run        *)
(* without cash, and the negative and NaN values that a clamped sell's     *)
(* commission and a missing price leave in the ledger.                     *)
(***************************************************************************)
SeriesValues == {F(0), F(9), F(10), F(-1), F(-2), NaN}

ValueSeries ==
    UNION {[1..n -> SeriesValues] : n \in 1..MaxSeries}

\* the daily values of a run without positions whose total values are series
DailyValuesOf(series) ==
    [n \in DOMAIN series |->
        [date |-> n, total_value |-> series[n], cash |-> series[n],
         positions_value |-> F(0)]]

AnalyticsInit ==
    /\ \E series \in ValueSeries : daily_values = DailyValuesOf(series)
    /\ panel = <<>>
    /\ raw_data = <<>>
    /\ start_date = NoDate
    /\ end_date = NoDate
    /\ dates = [n \in DOMAIN daily_values |-> n]
    /\ strategy = Callable
    /\ orders = <<>>
    /\ day_start = None
    /\ previous = <<>>
    /\ set_order = <<"A", "B">>
    /\ lookback_call = None
    /\ statistics = None
    /\ initial_cash = daily_values[1].total_value
    /\ commission_rate = F(0)
    /\ cash = daily_values[Len(daily_values)].cash
    /\ positions = <<>>
    /\ trades = <<>>
    /\ i = Len(daily_values)
    /\ k = 0
    /\ order = None
    /\ trade = None
    /\ pc = "done"

\* results.max_drawdown
ReadMaxDrawdown ==
    /\ pc = "done"
    /\ statistics = None
    /\ statistics' =
           [max_drawdown |-> MaxDrawdown(TotalValues(daily_values))]
    /\ UNCHANGED <<panel, initial_cash, commission_rate, cash, positions,
                   trades, daily_values, i, k, order, trade, pc, raw_data,
                   start_date, end_date, dates, strategy, orders, day_start,
                   previous, set_order, lookback_call>>

AnalyticsNext == ReadMaxDrawdown

AnalyticsSpec == AnalyticsInit /\ [][AnalyticsNext]_vars

(***************************************************************************)
(* BacktestResults.win_rate, read from the results of a run of the engine. *)
(***************************************************************************)
\* trades_by_ticker[ticker]: the trades of the log in ticker, in log order
TradesByTicker(log, ticker) == SelectSeq(log, LAMBDA t : t.ticker = ticker)

\* pnl > 0 with a pnl that is zero counted as a win
IsWinAtBreakEven(pnl) == FGe(pnl, F(0))

\* if pnl > 0
IsWin(pnl) == FGt(pnl, F(0))

\* one pass of the loop over a ticker's trades
TallyTrade(tally, t) ==
    IF t.side = BUY
    THEN [tally EXCEPT
             !.cost_basis = FAdd(@, FMul(F(t.quantity), t.price)),
             !.quantity = @ + t.quantity]
    ELSE IF tally.quantity > 0
    THEN LET avg_cost == FDiv(tally.cost_basis, F(tally.quantity))
             pnl == FMul(FSub(t.price, avg_cost), F(t.quantity))
             sold_cost == FMul(avg_cost, F(t.quantity))
         IN  [cost_basis |-> FSub(tally.cost_basis, sold_cost),
              quantity |-> tally.quantity - t.quantity,
              wins |-> IF IsWin(pnl) THEN tally.wins + 1 ELSE tally.wins,
              total |-> tally.total + 1]
    ELSE tally

\* the loop over the first n trades of one ticker: cost_basis and quantity
\* start at 0 for the ticker, wins and total come from the tickers before
RECURSIVE TallyTrades(_, _, _, _)
TallyTrades(list, n, wins, total) ==
    IF n = 0
    THEN [cost_basis |-> F(0), quantity |-> 0, wins |-> wins, total |-> total]
    ELSE CHOOSE result \in
             {TallyTrade(tally, list[n]) :
                  tally \in {TallyTrades(list, n - 1, wins, total)}} : TRUE

\* the loop over trades_by_ticker.items()
RECURSIVE TallyTickers(_, _, _, _)
TallyTickers(log, remaining, wins, total) ==
    IF remaining = {} THEN [wins |-> wins, total |-> total]
    ELSE LET ticker == CHOOSE t \in remaining : TRUE
             list == TradesByTicker(log, ticker)
         IN  CHOOSE result \in
                 {TallyTickers(log, remaining \ {ticker},
                               tally.wins, tally.total) :
                      tally \in {TallyTrades(list, Len(list), wins, total)}} :
                 TRUE

\* BacktestResults.win_rate
WinRate(log) ==
    IF log = <<>> THEN F(0)
    ELSE CHOOSE result \in
             {IF tally.total > 0 THEN Frac(tally.wins, tally.total) ELSE F(0) :
                  tally \in {TallyTickers(log, {t.ticker : t \in Range(log)},
                                          0, 0)}} : TRUE

\* a run with cash and without commission
WinRateInit == Init /\ initial_cash = F(50) /\ commission_rate = F(0)

\* results.win_rate
ReadWinRate ==
    /\ pc = "done"
    /\ statistics = None
    /\ statistics' = [win_rate |-> WinRate(trades)]
    /\ UNCHANGED <<panel, initial_cash, commission_rate, cash, positions,
                   trades, daily_values, i, k, order, trade, pc, raw_data,
                   start_date, end_date, dates, strategy, orders, day_start,
                   previous, set_order, lookback_call>>

WinRateNext == Next \/ ReadWinRate

WinRateSpec == WinRateInit /\ [][WinRateNext]_vars

(***************************************************************************)
(* Properties.                                                             *)
(***************************************************************************)
IsTrade(x) == x # None

\* every trade of the log was executed at a price that is a number
PricedTrades == \A n \in DOMAIN trades : ~IsNaN(trades[n].price)

\* C1: with initial cash >= 0, a commission rate >= 0 and every order
\* executed at a positive price, cash is >= 0 in every reachable state: a buy
\* never spends more than the cash available, commission included.
C1_CashNeverNegative ==
    (FGe(initial_cash, F(0)) /\ FGe(commission_rate, F(0)) /\ PricedTrades)
        => FGe(cash, F(0))

\* C2: every position's quantity is >= 0 in every reachable state, whatever
\* buys and sells (of requested quantity > 0) were executed.
C2_QuantityNeverNegative ==
    \A ticker \in DOMAIN positions : positions[ticker].quantity >= 0

\* a sell for more than was held has been executed and left the position flat
C2_Witness ==
    /\ pc = "loop" /\ IsTrade(trade) /\ order # None
    /\ trade.side = SELL
    /\ order.ticker = trade.ticker /\ order.side = SELL
    /\ order.quantity = trade.quantity
    /\ trade.quantity \notin Quantities
    /\ positions[trade.ticker].quantity = 0

\* the order of run()'s loop is about to be passed to execute_order
Calling == pc = "exec" /\ order.ticker \in DOMAIN current_prices

\* the price execute_order is called with
CallPrice == current_prices[order.ticker]

\* the order is a market order, or a limit order whose limit admits price
PassesLimit(o, price) ==
    \/ o.order_type = MARKET
    \/ o.side = BUY /\ ~FGt(price, o.limit_price)
    \/ o.side = SELL /\ ~FLt(price, o.limit_price)

\* the cost of buying q units at price, commission included
FullCost(q, price) == FMul(FMul(F(q), price), FAdd(F(1), commission_rate))

\* the largest q in 0..n that cash c pays for at price, commission included
MaxAffordable(n, price, c) ==
    CHOOSE q \in 0..n :
        /\ q > 0 => FLe(FullCost(q, price), c)
        /\ q < n => ~FLe(FullCost(q + 1, price), c)

HeldQuantity(ticker) ==
    IF ticker \in DOMAIN positions THEN positions[ticker].quantity ELSE 0

\* C3: when a buy's full cost (requested quantity x price + commission)
\* exceeds cash, execute_order fills the largest q > 0 with
\* q x price x (1 + commission rate) <= cash, and drops the order only when
\* no positive quantity is affordable.
C3_FillsMaxAffordable ==
    [][(/\ Calling /\ order.side = BUY
        /\ PassesLimit(order, CallPrice)
        /\ ~IsNaN(CallPrice) /\ ~IsNaN(cash)
        /\ FGt(FullCost(order.quantity, CallPrice), cash))
       => LET m == MaxAffordable(order.quantity, CallPrice, cash)
          IN  IF m = 0 THEN trade' = None
              ELSE IsTrade(trade') /\ trade'.quantity = m]_vars

\* C4: a sell order (a market order, or a limit order whose limit the price
\* meets) requesting more than the held quantity of its instrument executes
\* for exactly the held quantity, and a sell for an instrument with held
\* quantity 0 produces no trade.
C4_SellClampedToHeld ==
    [][(Calling /\ order.side = SELL /\ PassesLimit(order, CallPrice))
       => LET held == HeldQuantity(order.ticker)
          IN  /\ (order.quantity > held /\ held > 0)
                    => /\ IsTrade(trade')
                       /\ trade'.ticker = order.ticker /\ trade'.side = SELL
                       /\ trade'.quantity = held
                       /\ trades' = Append(trades, trade')
              /\ held = 0 => trade' = None /\ trades' = trades]_vars

\* a market sell for more than the whole position bought before has been
\* executed for what was held
C4_Witness ==
    /\ pc = "loop" /\ IsTrade(trade) /\ Len(trades) = 2
    /\ trade.side = SELL /\ order.order_type = MARKET
    /\ order.ticker = trade.ticker /\ order.quantity = trade.quantity
    /\ trades[1].side = BUY /\ trades[1].ticker = trade.ticker
    /\ trades[1].quantity = trade.quantity
    /\ trade.quantity \notin Quantities
    /\ trades[2] = trade

\* the size execute_order can fill of order o at price
FeasibleSize(o, price) ==
    IF o.side = SELL
    THEN IF o.quantity > HeldQuantity(o.ticker)
         THEN HeldQuantity(o.ticker) ELSE o.quantity
    ELSE IF FGt(FullCost(o.quantity, price), cash)
         THEN IntTrunc(FDiv(FSub(cash, FMul(FMul(F(o.quantity), price),
                                              commission_rate)), price))
         ELSE o.quantity

\* C5: for every order (of requested quantity > 0) passed to execute_order, a
\* trade is recorded only with executed quantity > 0 and <= the quantity
\* requested; an order whose feasible size is zero or negative is dropped: no
\* trade is returned and none is logged.
C5_TradesPositiveAndBounded ==
    [][Calling
       => /\ IsTrade(trade')
             => /\ trade'.quantity > 0
                /\ trade'.quantity <= order.quantity
                /\ trades' = Append(trades, trade')
          /\ trade' = None => trades' = trades
          /\ FeasibleSize(order, CallPrice) <= 0 => trade' = None
          /\ \A n \in DOMAIN trades' : trades'[n].quantity > 0]_vars

\* a buy that no cash was left for has been dropped: nothing returned, the
\* log as it was
C5_Witness ==
    /\ pc = "loop" /\ trade = None /\ order # None
    /\ order.side = BUY /\ order.order_type = MARKET
    /\ order.ticker \in Tickers /\ k > 0
    /\ Len(trades) = 1 /\ trades[1].side = BUY
    /\ ~IsNaN(cash) /\ ~IsNaN(panel[i][order.ticker])
    /\ FGt(cash, F(0))
    /\ FGt(panel[i][order.ticker], cash)

\* quantity x price summed over the held instruments of S that have a price
\* (a number) in prices
RECURSIVE PricedValue(_, _)
PricedValue(S, prices) ==
    IF S = {} THEN F(0)
    ELSE LET ticker == CHOOSE x \in S : TRUE
             rest == PricedValue(S \ {ticker}, prices)
         IN  IF /\ positions[ticker].quantity > 0
                /\ ticker \in DOMAIN prices
                /\ ~IsNaN(prices[ticker])
             THEN FAdd(FMul(F(positions[ticker].quantity), prices[ticker]), rest)
             ELSE rest

\* the ledger is as the last daily snapshot saw it
JustRecorded == pc \in {"loop", "done"} /\ k = 0 /\ Len(daily_values) > 0

LastSnapshot == daily_values[Len(daily_values)]

\* C6: every daily snapshot satisfies total_value = cash + positions_value,
\* where positions_value is the sum of quantity x price over the held
\* instruments that have a price that day; an instrument without a price that
\* day is skipped (contributes nothing).
C6_SnapshotSkipsUnpriced ==
    (JustRecorded /\ ~IsNaN(cash))
        => LET s == LastSnapshot
               value == PricedValue(DOMAIN positions, panel[s.date])
           IN  /\ s.positions_value = value
               /\ s.total_value = FAdd(cash, value)
               /\ s.cash = cash

\* the new element of the trade log
NewTrade == trades'[Len(trades')]

Traded == Len(trades') = Len(trades) + 1

\* the worked example of the cash accounting on execute_order
C7_Example ==
    LET buy == [ticker |-> "A", side |-> BUY, quantity |-> 100,
                order_type |-> MARKET, limit_price |-> None]
        sell == [buy EXCEPT !.side = SELL]
        r1 == ExecuteOrder(buy, F(150), F(100000), <<>>, <<>>, Frac(1, 1000))
        r2 == ExecuteOrder(sell, F(160), r1.cash, r1.positions, r1.trades,
                           Frac(1, 1000))
    IN  /\ r1.cash = F(84985)
        /\ r1.positions["A"].quantity = 100
        /\ r1.positions["A"].avg_cost = F(150)
        /\ r2.cash = F(100969)

\* C7: an executed buy of q units at price p decreases cash by exactly
\* q*p + commission and an executed sell of q units increases cash by exactly
\* q*p - commission, with commission = q*p*commission_rate on the executed
\* quantity; from cash 100,000 at rate 0.001, buying 100 at 150 leaves cash
\* 84,985 and position {100, avg_cost 150}, and then selling 100 at 160
\* leaves cash 100,969.
C7_CashMovesByValueAndCommission ==
    /\ C7_Example
    /\ [][(Traded /\ ~IsNaN(cash) /\ ~IsNaN(NewTrade.price))
          => LET t == NewTrade
                 qp == FMul(F(t.quantity), t.price)
             IN  /\ t.commission = FMul(qp, commission_rate)
                 /\ t.side = BUY => cash' = FSub(FSub(cash, qp), t.commission)
                 /\ t.side = SELL => cash' = FAdd(cash, FSub(qp, t.commission))
                 /\ t.side \in {BUY, SELL}]_vars

\* the worked example of the cash-constrained buy on execute_order
C8_Example ==
    LET buy == [ticker |-> "A", side |-> BUY, quantity |-> 10,
                order_type |-> MARKET, limit_price |-> None]
        r == ExecuteOrder(buy, F(150), F(1000), <<>>, <<>>, Frac(1, 1000))
    IN  /\ IsTrade(r.trade) /\ r.trade.quantity = 6
        /\ TradeValue(r.trade) = Frac(9009, 10)
        /\ r.cash = FSub(F(1000), Frac(9009, 10))

\* C8: when a buy's trade value plus commission exceeds cash, the executed
\* quantity equals floor((cash - commission) / price) with the commission of
\* the requested quantity; the order is dropped if that is <= 0; trade value
\* and commission are recomputed for the reduced quantity; cash 1,000, rate
\* 0.001, request 10 at price 150 executes 6 units costing 900.9.
C8_ReducedBuyQuantity ==
    /\ C8_Example
    /\ [][(/\ Calling /\ order.side = BUY
           /\ PassesLimit(order, CallPrice)
           /\ FGt(FullCost(order.quantity, CallPrice), cash))
          => LET p == CallPrice
                 c0 == FMul(FMul(F(order.quantity), p), commission_rate)
                 budget == FSub(cash, c0)
                 bought == IF IsTrade(trade') THEN trade'.quantity ELSE 0
             IN  \* bought = floor(budget / p), or nothing when that is <= 0
                 /\ bought >= 0
                 /\ bought > 0 =>
                       /\ FLe(FMul(F(bought), p), budget)
                       /\ FGt(FMul(F(bought + 1), p), budget)
                       /\ trade'.price = p
                       /\ trade'.commission =
                              FMul(FMul(F(bought), p), commission_rate)
                       /\ cash' = FSub(cash, FMul(F(bought), FMul(p,
                                     FAdd(F(1), commission_rate))))
                 /\ bought = 0 =>
                       /\ FLt(budget, p)
                       /\ trade' = None /\ cash' = cash /\ trades' = trades]_vars

\* a buy asking for more than cash pays has been executed for fewer units
C8_Witness ==
    /\ pc = "loop" /\ IsTrade(trade) /\ trade.side = BUY
    /\ Len(trades) = 1
    /\ initial_cash = F(50) /\ commission_rate = Frac(1, 1000)
    /\ trade.price = F(10) /\ trade.quantity = 3
    /\ order.quantity = 3
    /\ cash = Frac(1997, 100)

\* the indices of the log's trades in ticker
TradesOf(ticker) == {n \in DOMAIN trades : trades[n].ticker = ticker}

\* the quantity of ticker held after the first n trades of the log
RECURSIVE Replayed(_, _)
Replayed(ticker, n) ==
    IF n = 0 THEN 0
    ELSE IF trades[n].ticker # ticker THEN Replayed(ticker, n - 1)
    ELSE IF trades[n].side = BUY
         THEN Replayed(ticker, n - 1) + trades[n].quantity
         ELSE Replayed(ticker, n - 1) - trades[n].quantity

\* the last two trades in ticker are a buy of Q from a flat position and a
\* sell of the same Q
RoundTrip(ticker, b, s) ==
    /\ b \in TradesOf(ticker) /\ s \in TradesOf(ticker) /\ b < s
    /\ \A n \in TradesOf(ticker) : n <= b \/ n = s
    /\ trades[b].side = BUY /\ trades[s].side = SELL
    /\ trades[b].quantity = trades[s].quantity
    /\ Replayed(ticker, b - 1) = 0

\* C9: round trip: for any Q > 0 and any two prices, a buy of Q units of an
\* instrument executed from a flat position and a later sell of Q units leave
\* that position with quantity 0 and average cost 0.
C9_RoundTripLeavesFlat ==
    \A ticker \in Tickers : \A b, s \in DOMAIN trades :
        RoundTrip(ticker, b, s)
            => /\ ticker \in DOMAIN positions
               /\ positions[ticker].quantity = 0
               /\ positions[ticker].avg_cost = F(0)

\* a round trip bought at one price and sold at another has been executed
C9_Witness ==
    \E ticker \in Tickers : \E b, s \in DOMAIN trades :
        /\ RoundTrip(ticker, b, s)
        /\ ~IsNaN(trades[b].price) /\ ~IsNaN(trades[s].price)
        /\ trades[b].price # trades[s].price
        /\ pc = "done"

\* the order with its limit removed
AsMarket(o) == [o EXCEPT !.order_type = MARKET, !.limit_price = None]

\* C10: a limit buy produces no trade when the current price is above its
\* limit price and a limit sell none when the price is below its limit price;
\* in every other case (price equal to the limit included) the order
\* proceeds exactly like a market order and fills at the current price.
C10_LimitOrders ==
    [][(Calling /\ order.order_type = LIMIT)
       => LET p == CallPrice
              blocked == \/ order.side = BUY /\ FGt(p, order.limit_price)
                         \/ order.side = SELL /\ FLt(p, order.limit_price)
              m == ExecuteOrder(AsMarket(order), p, cash, positions, trades,
                                commission_rate)
          IN  IF blocked
              THEN /\ trade' = None
                   /\ UNCHANGED <<cash, positions, trades>>
              ELSE /\ cash' = m.cash /\ positions' = m.positions
                   /\ trades' = m.trades /\ trade' = m.trade
                   /\ IsTrade(trade') => trade'.price = p]_vars

\* a limit order has been filled at a price equal to its limit
C10_Witness ==
    /\ pc = "loop" /\ IsTrade(trade) /\ order # None
    /\ order.order_type = LIMIT
    /\ order.ticker = trade.ticker /\ order.side = trade.side
    /\ trade.price = order.limit_price
    /\ trades[Len(trades)] = trade

(***************************************************************************)
(* Error handling of a run with a built-in strategy (StrategySpec).         *)
(***************************************************************************)
\* C11: for any price panel (with at least one date) and any built-in
\* strategy, run() completes and returns its results: no exception leaves
\* the strategy's call or the driver.
C11_NoExceptionPropagates ==
    dates # <<>> => pc # "raised"

\* the engine's arguments leave no instrument or no date to simulate
Misconfigured ==
    \/ \A d \in DOMAIN raw_data : DOMAIN raw_data[d] = {}
    \/ KeptDates(raw_data, start_date, end_date) = <<>>

\* C12: a configuration error (an empty instrument universe, an empty range
\* of dates) is raised by the construction of the engine, before any
\* simulation step, and never by a later step of run().
C12_ConfigurationErrorAtConstruction ==
    [][Misconfigured =>
          IF pc = "new" THEN pc' = "raised" ELSE pc' # "raised"]_vars

(***************************************************************************)
(* The driver's loop over the day's orders.                                *)
(***************************************************************************)
\* the panel has no price for the order's instrument on the current date:
\* the instrument is no column of the panel, or its price is missing (NaN)
NoPriceToday(o) ==
    \/ o.ticker \notin DOMAIN current_prices
    \/ IsNaN(current_prices[o.ticker])

\* C13: an order whose instrument has no price on the current date is
\* dropped by the driver: the step of the loop that handles it leaves cash,
\* the positions and the trade log unchanged.
C13_UnpricedOrderDropped ==
    [][(pc = "exec" /\ NoPriceToday(order))
          => (cash' = cash /\ positions' = positions /\ trades' = trades)]_vars

\* the ledger after the driver's loop has handled list[1..n] in this order,
\* each order against the ledger the one before it left, from the ledger
\* the strategy's call left
RECURSIVE ExecutedInOrder(_, _)
ExecutedInOrder(list, n) ==
    IF n = 0
    THEN [cash |-> day_start.cash, positions |-> day_start.positions,
          trades |-> day_start.trades]
    ELSE LET before == ExecutedInOrder(list, n - 1)
             o == list[n]
             r == ExecuteOrder(o, current_prices[o.ticker], before.cash,
                               before.positions, before.trades,
                               commission_rate)
         IN  IF o.ticker \in DOMAIN current_prices
             THEN [cash |-> r.cash, positions |-> r.positions,
                   trades |-> r.trades]
             ELSE before

\* C14: within a day the orders are executed in the order of the returned
\* list, each against the ledger the previous one left: after k orders the
\* ledger is the one obtained by executing orders[1], ..., orders[k] in this
\* order from the ledger of the day's start (so the earlier of two buys is
\* sized against the full cash, the later one against what remains).
C14_ListOrder ==
    (pc = "loop" /\ day_start # None)
        => [cash |-> cash, positions |-> positions, trades |-> trades]
               = ExecutedInOrder(orders, k)

\* two buys competed for the cash: the first was filled, the second was
\* reduced or dropped because of what the first had spent
C14_Witness ==
    /\ pc = "loop" /\ day_start # None
    /\ k = 2 /\ Len(orders) = 2
    /\ orders[1].side = BUY /\ orders[2].side = BUY
    /\ orders[1].ticker # orders[2].ticker
    /\ Len(trades) > Len(day_start.trades)
    /\ trades[Len(day_start.trades) + 1].ticker = orders[1].ticker
    /\ \/ Len(trades) = Len(day_start.trades) + 1
       \/ trades[Len(trades)].quantity < orders[2].quantity
    /\ LET alone == ExecuteOrder(orders[2], current_prices[orders[2].ticker],
                                 day_start.cash, day_start.positions,
                                 day_start.trades, commission_rate)
       IN  /\ alone.trade # None
           /\ alone.trade.quantity = orders[2].quantity

(***************************************************************************)
(* The daily snapshots.                                                    *)
(***************************************************************************)
\* the snapshot of the current date: the ledger valued at the date's prices
SnapshotNow ==
    [date |-> dates[i],
     total_value |-> GetTotalValue(cash, positions, current_prices),
     cash |-> cash,
     positions_value |-> GetPositionsValue(positions, current_prices)]

\* one snapshot per date handled so far, in the order of the dates; all N of
\* them when the loop over the dates has ended
SnapshotPerDate ==
    /\ \A n \in DOMAIN daily_values : daily_values[n].date = dates[n]
    /\ pc \in {"day", "loop", "exec"} => Len(daily_values) = i - 1
    /\ pc \in {"results", "done"} => Len(daily_values) = Len(dates)

RequiredRows(s) ==
    CASE s.type = "MovingAverageCrossover" -> s.long_window + 1
      [] s.type = "MeanReversion" -> s.lookback + 1
      [] s.type = "MomentumStrategy" -> s.lookback
      [] s.type = "RSIStrategy" -> s.period
      [] OTHER -> 0

\* C17: a built-in strategy called on a date with fewer history rows (the
\* rows of the panel up to and including the date) than it requires returns
\* an empty list of orders and raises nothing.
C17_InsufficientHistoryNoSignal ==
    [][(pc = "day" /\ i < RequiredRows(strategy))
          => (pc' = "loop" /\ orders' = <<>>)]_vars

\* C19: execute_order is the only operation that changes the Portfolio: the
\* call of a built-in strategy's generate_signals and the valuation of the
\* daily snapshot leave cash, the positions map and the trade log exactly as
\* they were.
C19_OnlyExecuteOrderMutates ==
    [][(pc = "day" \/ (pc = "loop" /\ k = Len(orders)))
          => (cash' = cash /\ trades' = trades /\ positions' = positions)]_vars

\* new holds every position of old unchanged, and beyond them only
\* positions of quantity 0 and average cost 0
OnlyZeroPositionsAdded(old, new) ==
    /\ \A t \in DOMAIN old : t \in DOMAIN new /\ new[t] = old[t]
    /\ \A t \in DOMAIN new \ DOMAIN old :
           new[t] = [ticker |-> t, quantity |-> 0, avg_cost |-> F(0)]

\* C19 (amended): a generate_signals call leaves cash, the trade log and
\* every existing position unchanged, and can only add positions of
\* quantity 0 (get_position creates the position it is asked for), so no
\* valuation changes; the valuation of the daily snapshot changes nothing.
C19_OnlyZeroPositionsCreated ==
    [][/\ pc = "day"
          => /\ cash' = cash /\ trades' = trades
             /\ OnlyZeroPositionsAdded(positions, positions')
             /\ GetTotalValue(cash', positions', current_prices)
                    = GetTotalValue(cash, positions, current_prices)
       /\ (pc = "loop" /\ k = Len(orders))
          => (cash' = cash /\ trades' = trades /\ positions' = positions)]_vars

\* a generate_signals call has created positions: the map holds positions
\* although nothing was ever traded
C19_Witness ==
    /\ pc = "loop" /\ k = 0
    /\ trades = <<>>
    /\ DOMAIN positions # {}
    /\ orders # <<>>

(***************************************************************************)
(* Two runs on the same engine (RerunSpec).                                *)
(***************************************************************************)
\* C16: each run starts from a new Portfolio (the configured cash, no
\* position, no trade), and the second run, with a new strategy of the same
\* type and parameters, ends with the daily snapshots and the trades of the
\* first, for every built-in strategy.
C16_Deterministic ==
    /\ (pc = "day" /\ i = 1)
           => (cash = initial_cash /\ positions = <<>> /\ trades = <<>>)
    /\ (pc = "done" /\ previous # <<>>)
           => previous[1] = [daily_values |-> daily_values, trades |-> trades]

\* a momentum strategy that ranks both instruments has traded both in its
\* second run, which has ended
C16_Witness ==
    /\ pc = "done" /\ previous # <<>>
    /\ strategy.type = "MomentumStrategy"
    /\ Len(trades) >= 2
    /\ trades[1].ticker # trades[2].ticker
    /\ Len(daily_values) = StrategyDays

(***************************************************************************)
(* get_lookback (LookbackSpec).                                            *)
(***************************************************************************)
\* the place (from 0) the call takes for its date: the place of the date in
\* the index, and 0 for a date that is not in the index
PlaceOf(date) ==
    IF \E n \in DOMAIN dates : dates[n] = date
    THEN (CHOOSE n \in DOMAIN dates : dates[n] = date) - 1
    ELSE 0

\* rows from..to (places from 0) of the panel, in panel order
PanelRows(from, to) == [n \in 1..(to - from + 1) |-> panel[from + n]]

\* C18: get_lookback(date, periods) for a date at place i of the index
\* returns exactly the rows max(0, i - periods) .. i of the panel in panel
\* order: the last row is the row of the date and at most periods rows
\* precede it; for a date that is not in the index it returns what it
\* returns for i = 0, the first row of the panel alone.
C18_LookbackRows ==
    (lookback_call # None /\ panel # <<>>) =>
        LET place == PlaceOf(lookback_call.date)
            first == IF place > lookback_call.periods
                     THEN place - lookback_call.periods ELSE 0
        IN  /\ lookback_call.rows = PanelRows(first, place)
            /\ lookback_call.rows[Len(lookback_call.rows)] = panel[place + 1]
            /\ Len(lookback_call.rows) - 1 <= lookback_call.periods
            /\ (\A n \in DOMAIN dates : dates[n] # lookback_call.date)
                   => lookback_call.rows = <<panel[1]>>

\* a call for a date in the index with more earlier rows than periods: the
\* window is cut at periods rows before the date
C18_Witness ==
    /\ lookback_call # None /\ panel # <<>>
    /\ lookback_call.periods >= 1
    /\ PlaceOf(lookback_call.date) > lookback_call.periods
    /\ Len(lookback_call.rows) = lookback_call.periods + 1
    /\ Len(lookback_call.rows) < Len(panel)

(***************************************************************************)
(* The statistics of a finished run.                                       *)
(***************************************************************************)
\* no value of the series is below an earlier value
NeverFalls(values) ==
    \A n \in DOMAIN values : \A m \in 1..(n - 1) : ~FLt(values[n], values[m])

\* the series [100000, 110000, 90000, 95000] gives (90000 - 110000) / 110000
C20_Example ==
    MaxDrawdown(<<F(100000), F(110000), F(90000), F(95000)>>)
        = FDiv(FSub(F(90000), F(110000)), F(110000))

\* C20: the max_drawdown of a finished run is <= 0, and it is 0 exactly when
\* the series of total values never falls below an earlier value; the series
\* [100000, 110000, 90000, 95000] gives (90000 - 110000) / 110000.
C20_MaxDrawdown ==
    /\ C20_Example
    /\ statistics # None =>
           /\ \/ statistics.max_drawdown = NegInf
              \/ FLe(statistics.max_drawdown, F(0))
           /\ statistics.max_drawdown = F(0)
                  <=> NeverFalls(TotalValues(daily_values))

\* the running cost basis and quantity of ticker after the first n trades of
\* the log: a buy adds its quantity and quantity x price, a sell against a
\* nonzero quantity takes off its quantity and average cost x quantity
RECURSIVE Running(_, _)
Running(ticker, n) ==
    IF n = 0 THEN [cost_basis |-> F(0), quantity |-> 0]
    ELSE CHOOSE result \in
        {IF trades[n].ticker # ticker THEN b
         ELSE IF trades[n].side = BUY
         THEN [cost_basis |->
                   FAdd(b.cost_basis,
                        FMul(F(trades[n].quantity), trades[n].price)),
               quantity |-> b.quantity + trades[n].quantity]
         ELSE IF b.quantity # 0
         THEN [cost_basis |->
                   FSub(b.cost_basis,
                        FMul(FDiv(b.cost_basis, F(b.quantity)),
                             F(trades[n].quantity))),
               quantity |-> b.quantity - trades[n].quantity]
         ELSE b : b \in {Running(ticker, n - 1)}} : TRUE

\* the sells of the log made against a nonzero replayed quantity
CountedSells ==
    {n \in DOMAIN trades :
        /\ trades[n].side = SELL
        /\ Running(trades[n].ticker, n - 1).quantity # 0}

\* those of them whose price is above the running average cost
WinningSells ==
    {n \in CountedSells :
        LET b == Running(trades[n].ticker, n - 1)
        IN  FGt(trades[n].price, FDiv(b.cost_basis, F(b.quantity)))}

\* C21: win_rate equals wins / total, where, replaying each instrument's
\* trades in log order with a running cost basis and quantity, every sell made
\* against a nonzero replayed quantity counts once in total and counts as a
\* win iff sell price > running average cost, and reduces the cost basis by
\* average cost x sold quantity; win_rate is 0 when the log has no such sell.
C21_WinRate ==
    statistics # None =>
        statistics.win_rate =
            IF CountedSells = {} THEN F(0)
            ELSE Frac(Cardinality(WinningSells), Cardinality(CountedSells))

\* the win rate of a log with a winning and a losing sell has been read
C21_Witness ==
    /\ statistics # None
    /\ WinningSells # {}
    /\ CountedSells \ WinningSells # {}

\* the place in the log after which ticker was last flat
LastFlat(ticker) ==
    CHOOSE m \in 0..Len(trades) :
        /\ Replayed(ticker, m) = 0
        /\ \A n \in (m + 1)..Len(trades) : Replayed(ticker, n) # 0

\* the prices of the buys of ticker since it was last flat
BuyPricesSinceFlat(ticker) ==
    {trades[n].price :
        n \in {m \in TradesOf(ticker) :
                  m > LastFlat(ticker) /\ trades[m].side = BUY}}

\* the position of ticker before the trade: a new one when there is none
PositionBefore(ticker) ==
    IF ticker \in DOMAIN positions THEN positions[ticker]
    ELSE NewPosition(ticker)

\* the update of the position that the claim states for the trade t
AccountedFor(t) ==
    LET old == PositionBefore(t.ticker)
        new == positions'[t.ticker]
    IN  IF t.side = BUY
        THEN /\ new.quantity = old.quantity + t.quantity
             /\ new.avg_cost =
                    FDiv(FAdd(FMul(F(old.quantity), old.avg_cost),
                              FMul(F(t.quantity), t.price)),
                         F(new.quantity))
        ELSE /\ new.quantity = old.quantity - t.quantity
             /\ new.avg_cost =
                    IF new.quantity = 0 THEN F(0) ELSE old.avg_cost

\* quantity = 0 implies avg_cost = 0, and the avg_cost of a held position
\* lies between the lowest and the highest buy price since it was last flat
AvgCostWithinBuyPrices ==
    \A ticker \in DOMAIN positions :
        LET p == positions[ticker]
        IN  /\ p.quantity = 0 => p.avg_cost = F(0)
            /\ p.quantity # 0 =>
                   /\ \E low \in BuyPricesSinceFlat(ticker) :
                          FLe(low, p.avg_cost)
                   /\ \E high \in BuyPricesSinceFlat(ticker) :
                          FLe(p.avg_cost, high)

\* C22: position accounting: a buy of q at price p sets avg_cost to (old
\* quantity x old avg_cost + q x p) / new quantity (commission excluded); a
\* partial sell leaves avg_cost unchanged; a sell that brings quantity to 0
\* resets avg_cost to 0; hence in every reachable state quantity = 0 implies
\* avg_cost = 0, and avg_cost of a held position lies between the lowest and
\* highest buy price since it was last flat.
C22_PositionAccounting ==
    /\ [][Traded => AccountedFor(NewTrade)]_vars
    /\ []AvgCostWithinBuyPrices

\* the mean of the window prices of ticker that end at place at of the panel:
\* NaN when the panel has no full window there or a price of it is missing
WindowMean(ticker, window, at) ==
    IF at - window + 1 < 1 \/ at > Len(panel) THEN NaN
    ELSE FDiv(SeriesSum(Column(panel, ticker), at - window + 1, at), F(window))

\* the quantity of ticker held when the strategy is called
HeldAtCall(ticker) ==
    IF ticker \in DOMAIN positions THEN positions[ticker].quantity ELSE 0

\* short is above long at place at; both averages are over full windows
Above(s, ticker, at) ==
    FGt(WindowMean(ticker, s.short_window, at),
        WindowMean(ticker, s.long_window, at))

\* both averages at place at are defined over full windows
FullWindows(s, ticker, at) ==
    /\ ~IsNaN(WindowMean(ticker, s.short_window, at))
    /\ ~IsNaN(WindowMean(ticker, s.long_window, at))

\* the order o is what the claim lets the crossover strategy s emit on day i
CrossoverOrder(s, o) ==
    IF o.side = BUY
    THEN /\ FullWindows(s, o.ticker, i) /\ FullWindows(s, o.ticker, i - 1)
         /\ Above(s, o.ticker, i) /\ ~Above(s, o.ticker, i - 1)
         /\ HeldAtCall(o.ticker) = 0
         /\ F(o.quantity) =
                F(IntTrunc(FDiv(FMul(cash, s.position_size),
                                current_prices[o.ticker])))
    ELSE /\ FullWindows(s, o.ticker, i)
         /\ ~Above(s, o.ticker, i) /\ Above(s, o.ticker, i - 1)
         /\ HeldAtCall(o.ticker) > 0
         /\ o.quantity = HeldAtCall(o.ticker)

\* C23: MovingAverageCrossover emits a buy for an instrument only on a day
\* where the short moving average is above the long one today and was not
\* above it on the previous day, both days' averages being defined over full
\* windows, and the held quantity is 0, with quantity floor(cash x
\* position_size / price); it emits a sell, for the full held quantity, only
\* on a day where short is not above long today and was above it yesterday
\* while a position is held.
C23_CrossoverOrders ==
    [][(pc = "day" /\ strategy.type = "MovingAverageCrossover")
          => \A n \in DOMAIN orders' : CrossoverOrder(strategy, orders'[n])]_vars

\* the strategies that trade on a threshold of an indicator
ThresholdStrategies == {"MovingAverageCrossover", "MeanReversion", "RSIStrategy"}

\* C24: the threshold strategies (MovingAverageCrossover, MeanReversion,
\* RSIStrategy) never emit a buy for an instrument whose held quantity is
\* nonzero and never emit a sell for an instrument whose held quantity is
\* zero; every sell they emit is for exactly the currently held quantity, and
\* they emit at most one order per instrument per step.
C24_ThresholdOrders ==
    [][(pc = "day" /\ strategy.type \in ThresholdStrategies)
          => /\ \A n \in DOMAIN orders' :
                    LET o == orders'[n]
                    IN  /\ o.side = BUY => HeldAtCall(o.ticker) = 0
                        /\ o.side = SELL =>
                               /\ HeldAtCall(o.ticker) # 0
                               /\ o.quantity = HeldAtCall(o.ticker)
             /\ \A n, m \in DOMAIN orders' :
                    orders'[n].ticker = orders'[m].ticker => n = m]_vars

\* a threshold strategy has returned a sell of a held position, on a day
\* after it bought
C24_Witness ==
    /\ pc = "loop" /\ k = 0
    /\ strategy.type \in ThresholdStrategies
    /\ \E n \in DOMAIN orders :
           /\ orders[n].side = SELL
           /\ orders[n].quantity = day_start.positions[orders[n].ticker].quantity
    /\ \E n \in DOMAIN trades : trades[n].side = BUY

\* the call of the momentum strategy on day i is the i-th since construction
Scheduled(s) == i % s.rebalance_days = 0

\* C25: MomentumStrategy returns orders only on calls whose ordinal (counted
\* from the instance's construction or reset) is a multiple of
\* rebalance_days; on every other call it returns an empty list and leaves
\* its selected-holdings set unchanged, and a scheduled call that finds
\* insufficient history also returns empty and restarts the count.
C25_RebalanceSchedule ==
    [][(pc = "day" /\ strategy.type = "MomentumStrategy")
          => /\ orders' # <<>> => Scheduled(strategy)
             /\ ~Scheduled(strategy) =>
                    /\ pc' = "loop" /\ orders' = <<>>
                    /\ strategy'.current_holdings = strategy.current_holdings
             /\ (Scheduled(strategy) /\ i < strategy.lookback) =>
                    /\ pc' = "loop" /\ orders' = <<>>
                    /\ strategy'.days_since_rebalance = 0]_vars

\* in a second run, with the strategy's state reset, the second scheduled
\* call has returned orders after the first one found insufficient history
C25_Witness ==
    /\ pc = "loop" /\ k = 0
    /\ previous # <<>>
    /\ strategy.type = "MomentumStrategy"
    /\ strategy.rebalance_days > 1
    /\ strategy.rebalance_days < strategy.lookback
    /\ i = 2 * strategy.rebalance_days
    /\ orders # <<>>

\* the place in the panel of the first row of the history that the momentum
\* strategy s fetches on day i
WindowStart(s) == Max(1, i - (s.lookback + 1))

\* the instruments of the ticker list with a positive price at the start of
\* the window
Eligible(s) ==
    {t \in Range(s.tickers) \cap Columns(panel) :
        FGt(panel[WindowStart(s)][t], F(0))}

\* (end price - start price) / start price over the window
WindowReturn(s, t) ==
    FDiv(FSub(panel[i][t], panel[WindowStart(s)][t]), panel[WindowStart(s)][t])

\* the place of ticker t in list
ListPlace(list, t) == CHOOSE n \in DOMAIN list : list[n] = t

\* t is ranked before u: a higher return, or an equal return and an earlier
\* place in the ticker list; a return that is a number before one that is not
RankedBefore(s, t, u) ==
    \/ FGt(WindowReturn(s, t), WindowReturn(s, u))
    \/ ~IsNaN(WindowReturn(s, t)) /\ IsNaN(WindowReturn(s, u))
    \/ /\ WindowReturn(s, t) = WindowReturn(s, u)
       /\ ListPlace(s.tickers, t) < ListPlace(s.tickers, u)

\* the top_n instruments of that ranking
TopByReturn(s) ==
    {t \in Eligible(s) :
        Cardinality({u \in Eligible(s) : RankedBefore(s, u, t)}) < s.top_n}

\* a history of two rows with the returns +10%, +5%, -2% and +8%
ExampleHistory ==
    <<[A |-> F(100), B |-> F(100), C |-> F(100), D |-> F(100)],
      [A |-> F(110), B |-> F(105), C |-> F(98), D |-> F(108)]>>

\* the example's selection, for the ticker list in every one of TickerLists
C26_Example ==
    \A tickers \in TickerLists :
        TopTickers(NewMomentumStrategy(tickers, 1, 2, 1), ExampleHistory)
            = {"A", "D"}

\* C26: on a momentum rebalance the selected set is the top_n instruments by
\* return over the lookback window ((end price - start price) / start price,
\* instruments with a positive start price only), independent of the order of
\* the ticker list except that instruments with equal returns are ranked in
\* their original list order; e.g. returns +10%, +5%, -2%, +8% with top_n = 2
\* select the +10% and +8% instruments.
C26_TopByReturn ==
    /\ C26_Example
    /\ [][(/\ pc = "day" /\ strategy.type = "MomentumStrategy"
           /\ Scheduled(strategy) /\ i >= strategy.lookback
           /\ pc' = "loop")
             => strategy'.current_holdings = TopByReturn(strategy)]_vars

\* a rebalance of the momentum strategy
Rebalance ==
    /\ pc = "day" /\ strategy.type = "MomentumStrategy"
    /\ Scheduled(strategy) /\ i >= strategy.lookback

\* the set that the rebalance on day i selects
Selected ==
    TopTickers(strategy,
               GetLookback(panel, dates, dates[i], strategy.lookback + 1))

\* the previously selected instruments that left the top-N set and are still
\* held, and the instruments that newly entered it and have a price
LeftAndHeld ==
    {t \in strategy.current_holdings \ Selected :
        HeldAtCall(t) # 0}

EnteredAndPriced ==
    {t \in Selected \ strategy.current_holdings :
        t \in DOMAIN current_prices /\ ~IsNaN(current_prices[t])}

\* floor((cash / top_n) / price)
EqualSplit(t) ==
    IntTrunc(FDiv(FDiv(cash, F(strategy.top_n)), current_prices[t]))

\* the instruments of EnteredAndPriced whose buy is of at least one unit
Bought == {t \in EnteredAndPriced : EqualSplit(t) > 0}

\* C27: on a momentum rebalance the returned list consists of a
\* full-quantity sell for every previously selected instrument that left the
\* top-N set and is still held, followed by a buy of floor((cash / top_n) /
\* price) for every instrument that newly entered the top-N set and has a
\* price, and nothing else; instruments that stay in the top-N set get no
\* order.
C27_RebalanceOrders ==
    [][Rebalance =>
          LET sold == Cardinality(LeftAndHeld)
          IN  /\ pc' = "loop"
              /\ Len(orders') = sold + Cardinality(Bought)
              /\ \A t \in LeftAndHeld : \E n \in 1..sold :
                     orders'[n] = MarketOrder(t, SELL, HeldAtCall(t))
              /\ \A t \in Bought : \E n \in (sold + 1)..Len(orders') :
                     orders'[n] = MarketOrder(t, BUY, EqualSplit(t))]_vars

\* the configured instruments of the buy-and-hold strategy s that have a
\* price on day i
ConfiguredAndPriced(s) ==
    {t \in Range(s.tickers) :
        t \in DOMAIN current_prices /\ ~IsNaN(current_prices[t])}

\* floor(cash x weight / price): the configured weight, or an equal one
WeightedSplit(s, t) ==
    LET weight == IF t \in DOMAIN s.weights THEN s.weights[t]
                  ELSE Frac(1, Len(s.tickers))
    IN  IntTrunc(FDiv(FMul(cash, weight), current_prices[t]))

\* C28: BuyAndHold emits orders on its first invocation only: for each
\* configured instrument with a price, a buy of floor(cash x weight / price)
\* units (equal weights when none are configured), all sized from the cash at
\* that invocation; every later invocation returns an empty list, so after
\* the first day the trade log never grows.
C28_BuyAndHold ==
    [][strategy.type = "BuyAndHold" =>
          /\ (pc = "day" /\ i = 1) =>
                 LET bought == {t \in ConfiguredAndPriced(strategy) :
                                   WeightedSplit(strategy, t) > 0}
                 IN  /\ pc' = "loop"
                     /\ Len(orders') = Cardinality(bought)
                     /\ \A t \in bought : \E n \in DOMAIN orders' :
                            orders'[n] =
                                MarketOrder(t, BUY, WeightedSplit(strategy, t))
          /\ (pc = "day" /\ i > 1) => (pc' = "loop" /\ orders' = <<>>)
          /\ i > 1 => trades' = trades]_vars

\* the orders that the sub-strategy m of the combination proposes on day i
Proposed(m) ==
    MemberSignals(strategy.strategies[m], dates[i], current_prices, cash,
                  positions).orders

\* the sub-strategies that propose an order of that side for ticker on day i
Proposers(ticker, side) ==
    {m \in DOMAIN strategy.strategies :
        \E j \in DOMAIN Proposed(m) :
            Proposed(m)[j].ticker = ticker /\ Proposed(m)[j].side = side}

\* the number of sub-strategies when require_all is set, min_agree otherwise
Agreement ==
    IF strategy.require_all THEN Len(strategy.strategies)
    ELSE strategy.min_agree

\* C29: CombinedStrategy emits a buy (respectively sell) order for an
\* instrument on a step only if at least threshold of its sub-strategies
\* proposed a buy (respectively sell) for that instrument on that step, where
\* threshold is the number of sub-strategies when require_all is set and
\* min_agree otherwise; it emits at most one order per instrument per step.
C29_Agreement ==
    [][(pc = "day" /\ strategy.type = "CombinedStrategy")
          => /\ \A n \in DOMAIN orders' :
                    Cardinality(Proposers(orders'[n].ticker, orders'[n].side))
                        >= Agreement
             /\ \A n, m \in DOMAIN orders' :
                    orders'[n].ticker = orders'[m].ticker => n = m]_vars

\* a combination that requires both of its sub-strategies has returned an
\* order
C29_Witness ==
    /\ pc = "loop" /\ k = 0
    /\ strategy.type = "CombinedStrategy"
    /\ strategy.require_all
    /\ orders # <<>>

\* the largest quantity among the buys that the sub-strategies propose for
\* ticker on day i
MaxProposed(ticker) ==
    LET quantities ==
            UNION {{Proposed(m)[j].quantity :
                       j \in {x \in DOMAIN Proposed(m) :
                                 /\ Proposed(m)[x].ticker = ticker
                                 /\ Proposed(m)[x].side = BUY}} :
                   m \in Proposers(ticker, BUY)}
    IN  CHOOSE q \in quantities : \A x \in quantities : x <= q

\* C30: whenever the buy votes for an instrument meet the threshold,
\* CombinedStrategy emits a buy whose quantity equals the maximum quantity
\* among the buy orders that the agreeing sub-strategies proposed for that
\* instrument in that step's poll, for every combination of built-in
\* sub-strategies including stateful ones (BuyAndHold, Momentum, Value).
C30_LargestProposedQuantity ==
    [][(pc = "day" /\ strategy.type = "CombinedStrategy")
          => \A ticker \in Columns(panel) :
                 Cardinality(Proposers(ticker, BUY)) >= Agreement
                     => /\ pc' = "loop"
                        /\ \E n \in DOMAIN orders' :
                               orders'[n] =
                                   MarketOrder(ticker, BUY,
                                               MaxProposed(ticker))]_vars

(***************************************************************************)
(* The calls a combination makes (CombinationSpec).                        *)
(***************************************************************************)
\* the sub-strategy m of the combination as one call of its generate_signals
\* on day i leaves it
CalledOnce(m) ==
    MemberSignals(strategy.strategies[m], dates[i], current_prices, cash,
                  positions).strategy

\* C31: CombinedStrategy invokes each sub-strategy's generate_signals exactly
\* once per simulated step: a call of the combination that returns leaves
\* every sub-strategy's state (bought, days_since_rebalance,
\* current_holdings) as one call of that sub-strategy leaves it.
C31_EachMemberCalledOnce ==
    [][(pc = "day" /\ pc' = "loop" /\ strategy.type = "CombinedStrategy")
          => \A m \in DOMAIN strategy.strategies :
                 strategy'.strategies[m] = CalledOnce(m)]_vars

(***************************************************************************)
(* A second run with the reset strategy object (ResetSpec).                *)
(***************************************************************************)
\* the second run has returned results
SecondRunDone == pc = "done" /\ previous # <<>>

\* the snapshots and the trades of the first run, whose strategy object was
\* newly constructed
FirstRun == previous[1]

\* a strategy that keeps its state in fields of its own
OwnState(s) == s.type # "CombinedStrategy"

\* C32 as stated: for every built-in strategy, the second run, with the
\* object of the first run reset as compare_strategies does, produces the
\* snapshots and the trades of the first run, whose object was new.
C32_ResetAsNew ==
    SecondRunDone
        => FirstRun = [daily_values |-> daily_values, trades |-> trades]

\* C32, amended: the same for every built-in strategy that is not a
\* CombinedStrategy (the reset assigns fields of the object it is given and
\* a combination keeps its state in its sub-strategies).
C32_ResetAsNewOwnState ==
    (SecondRunDone /\ OwnState(strategy))
        => FirstRun = [daily_values |-> daily_values, trades |-> trades]

\* the second run of a reset momentum strategy has ended, with trades in
\* both instruments
C32_Witness ==
    /\ SecondRunDone
    /\ strategy.type = "MomentumStrategy"
    /\ Len(trades) >= 2
    /\ trades[1].ticker # trades[2].ticker

(***************************************************************************)
(* The ledger and the trade log (Spec).                                    *)
(***************************************************************************)
\* the initial cash, less quantity x price + commission of each buy among
\* the first n trades of the log, plus quantity x price - commission of each
\* sell among them
RECURSIVE LoggedCash(_)
LoggedCash(n) ==
    IF n = 0 THEN initial_cash
    ELSE LET t == trades[n]
             gross == FMul(F(t.quantity), t.price)
         IN  IF t.side = BUY
             THEN FSub(LoggedCash(n - 1), FAdd(gross, t.commission))
             ELSE FAdd(LoggedCash(n - 1), FSub(gross, t.commission))

\* C33: the ledger is reconstructible from the trade log: in every reachable
\* state cash is the initial cash less (quantity x price + commission) of
\* the logged buys plus (quantity x price - commission) of the logged sells,
\* and each instrument's held quantity is its logged buy quantity less its
\* logged sell quantity.
C33_LedgerFromLog ==
    /\ cash = LoggedCash(Len(trades))
    /\ \A ticker \in Tickers \cup {UnknownTicker} :
           HeldQuantity(ticker) = Replayed(ticker, Len(trades))

\* a buy and a sell of fewer units than asked for are logged, both with a
\* commission (the sell's is that of the quantity asked for)
C33_Witness ==
    /\ Len(trades) = 2
    /\ trades[1].side = BUY /\ trades[2].side = SELL
    /\ trades[1].ticker = trades[2].ticker
    /\ FGt(trades[1].commission, F(0))
    /\ FGt(trades[2].commission,
           FMul(FMul(F(trades[2].quantity), trades[2].price), commission_rate))
    /\ pc = "loop"
    /\ cash # initial_cash

\* the total value of a portfolio with cash c and positions pos at the prices
\* of day i
ValueToday(c, pos) == GetTotalValue(c, pos, current_prices)

\* C34: executing an order at the day's price changes the portfolio's total
\* value, valued at that same day's prices, by exactly minus the trade's
\* commission; within a day total value never increases as orders execute,
\* and with commission rate 0 trading leaves it unchanged.
C34_ValueFallsByCommission ==
    [][Traded
          => /\ ValueToday(cash', positions')
                    = FSub(ValueToday(cash, positions), NewTrade.commission)
             /\ ~FGt(ValueToday(cash', positions'), ValueToday(cash, positions))
             /\ commission_rate = F(0)
                    => ValueToday(cash', positions')
                           = ValueToday(cash, positions)]_vars

(***************************************************************************)
(* Calls of execute_order that return no trade (Spec).                     *)
(***************************************************************************)
\* execute_order is called in this step and returns None
NoTrade == Calling /\ trade' = None /\ trades' = trades

\* C35 as stated: when execute_order returns no trade, cash, the trade log
\* and every position are unchanged, and so is the set of instruments in
\* the positions map.
C35_NoTradeChangesNothing ==
    [][NoTrade
          => /\ cash' = cash /\ trades' = trades
             /\ \A t \in DOMAIN positions :
                    t \in DOMAIN positions' /\ positions'[t] = positions[t]
             /\ DOMAIN positions' = DOMAIN positions]_vars

\* C35, amended: when execute_order returns no trade, cash, the trade log
\* and every position are unchanged; the positions map gains at most the
\* instrument of a sell order, with quantity 0 and average cost 0, and
\* nothing on a buy order.
C35_NoTradeAddsZeroPositionAtMost ==
    [][NoTrade
          => /\ cash' = cash /\ trades' = trades
             /\ OnlyZeroPositionsAdded(positions, positions')
             /\ DOMAIN positions' \subseteq DOMAIN positions \cup {order.ticker}
             /\ order.side = BUY => DOMAIN positions' = DOMAIN positions]_vars

\* a sell for an instrument that was never referenced has returned no trade
\* and left its position in the map
C35_Witness ==
    /\ pc = "loop" /\ k > 0
    /\ trade = None /\ trades = <<>>
    /\ order.side = SELL
    /\ order.ticker \in DOMAIN current_prices
    /\ DOMAIN positions = {order.ticker}
    /\ positions[order.ticker].quantity = 0

(***************************************************************************)
(* The replay of win_rate and the ledger (WinRateSpec).                    *)
(***************************************************************************)
\* cost_basis and quantity of the replay of win_rate for ticker, after the
\* trades logged so far
ReplayOf(ticker) ==
    LET list == TradesByTicker(trades, ticker)
    IN  TallyTrades(list, Len(list), 0, 0)

\* the replay before the sell that this step logs agrees with the ledger
\* before it: a positive quantity, and the position's average cost
ReplayAgrees(t) ==
    \E b \in {ReplayOf(t.ticker)} :
        /\ b.quantity > 0
        /\ t.ticker \in DOMAIN positions
        /\ FDiv(b.cost_basis, F(b.quantity)) = positions[t.ticker].avg_cost

\* C36: the win-rate replay agrees with the ledger: for every trade log a
\* run can produce, the replayed quantity before each sell is positive and
\* the average cost the replay uses at each sell equals the Position's
\* avg_cost in the ledger just before that sell was executed.
C36_ReplayAgreesWithLedger ==
    [][(Traded /\ NewTrade.side = SELL) => ReplayAgrees(NewTrade)]_vars

(***************************************************************************)
(* The holdings of the momentum strategy and the portfolio (StrategySpec). *)
(***************************************************************************)
\* the instruments of which the portfolio holds a positive quantity
Held == {t \in DOMAIN positions : positions[t].quantity > 0}

\* the orders of a call that found a rebalance due have all been executed
RebalanceExecuted ==
    /\ strategy.type = "MomentumStrategy"
    /\ pc = "loop" /\ k = Len(orders)
    /\ strategy.days_since_rebalance = 0

\* C37: in a run driven by MomentumStrategy alone, after the orders of each
\* rebalance step have been executed the strategy's current_holdings set
\* equals the set of instruments with positive held quantity in the
\* portfolio.
C37_HoldingsAreHeld ==
    RebalanceExecuted => strategy.current_holdings = Held

(***************************************************************************)
(* The life of an order (StrategySpec).                                    *)
(***************************************************************************)
\* the list that the strategy returns when called on day i
ReturnedToday ==
    GenerateSignals(strategy, dates[i], current_prices, cash, positions).orders

\* the trade that this step logs stems from the order that the loop took
\* from today's list, at the price of the panel on day i; every order of the
\* list has produced one trade at most
StemsFromTodaysOrder(t) ==
    /\ pc = "exec"
    /\ k \in DOMAIN orders /\ order = orders[k]
    /\ t.ticker = order.ticker /\ t.side = order.side
    /\ t.quantity <= order.quantity
    /\ t.price = panel[i][order.ticker]
    /\ Len(trades') <= Len(day_start.trades) + k

\* C38: orders live for one step only: the list in the loop is the one the
\* strategy returned on the current day (each call replaces it, and a new
\* date starts with a call), so an order that does not fill on the day it is
\* returned is discarded; every trade logged on a day stems from an order
\* the strategy returned on that same day and carries that day's panel
\* price.
C38_OrdersLiveOneStep ==
    [][/\ (pc = "day" /\ pc' = "loop")
           => (orders' = ReturnedToday /\ i' = i /\ k' = 0 /\ k = 0)
       /\ pc # "day" => orders' = orders
       /\ i' # i => (pc' = "day" /\ k' = 0)
       /\ Traded => StemsFromTodaysOrder(NewTrade)]_vars

\* of the two orders returned today the first was filled and the second was
\* not, and the run goes on to a later date
C38_Witness ==
    /\ pc = "loop" /\ k = 2 /\ Len(orders) = 2
    /\ Len(trades) = Len(day_start.trades) + 1
    /\ trade = None
    /\ i < Len(dates)

====
